---- MODULE Spec2Model ----
(***************************************************************************)
(* A model of the type-erased hashmap of src/hashmap.h.                    *)
(*                                                                         *)
(* The backing buffer `pairs` is modelled byte by byte: a function from    *)
(* byte offsets 0 .. capacity * pair_size - 1 to byte values.  Pointers    *)
(* into the buffer are byte offsets.  size_t values that live in memory    *)
(* (the stored hash) are 8 little-endian bytes (LP64), and the arithmetic  *)
(* of the hash function is done on those bytes, modulo 2^64.               *)
(***************************************************************************)
EXTENDS Integers, Sequences, FiniteSets, TLC

VARIABLES hashmap, tclhashmap_hash_func, main_key, status, last, clean,
          hashmap2, array, key_buffer, hash_func_arg, stack, string_a, string_b,
          bitset_a, bitset_b

vars == <<hashmap, tclhashmap_hash_func, main_key, status, last, clean,
          hashmap2, array, key_buffer, hash_func_arg, stack, string_a, string_b,
          bitset_a, bitset_b>>

-----------------------------------------------------------------------------
(* Bounds of the model.                                                    *)

\* keys the caller of Spec sets: 1 .. MaxKey
MaxKey == 2
\* the caller of Spec appends only while length < MaxLen
MaxLen == 2
\* the caller of SpecGrow sets the keys 1, 2, ..., GrowMaxKey
GrowMaxKey == 6
\* the caller of SpecHash sets the keys 1, 2, ..., HashMaxKey
HashMaxKey == 3
\* the caller of SpecWrite sets the keys 1, 2, ..., WriteMaxKey
WriteMaxKey == 3
\* the buffers hashed under SpecDjb2 have 0 .. Djb2MaxSize bytes
Djb2MaxSize == 2
\* the caller of SpecArray adds and inserts only while length < ArrayMaxLen
ArrayMaxLen == 6
\* the caller of SpecArray inserts and removes at most ArrayMaxCalls times
ArrayMaxCalls == 2
\* the caller of SpecMix sets the keys 1 .. MixMaxKey in turn
MixMaxKey == 6
\* the caller of SpecFill sets the keys 1 .. FillMaxKey in turn
FillMaxKey == 11
\* the caller of SpecStack pushes only while length < StackMaxLen
StackMaxLen == 6
\* the strings searched under SpecString have 0 .. StringMaxLen characters
StringMaxLen == 3
\* the caller of SpecStringBuild appends only up to BuildMaxLen characters
BuildMaxLen == 3
\* the bitsets of SpecBitset have 1 .. BitsetMaxBits bits
BitsetMaxBits == 2

-----------------------------------------------------------------------------
(* Memory: bytes, size_t, pointers.                                        *)

\* the value of a byte that was never written (malloc/realloc slack)
Indet == -1
\* a null pointer; every other pointer is a byte offset into `pairs`
NULL == -1
\* the scan's "no record matched" result (the loop ran to length)
NotFound == -1
\* sizeof(size_t) and sizeof(uint8_t*) on the LP64 build
SizeofSizeT == 8
SizeofPtr == 8

\* the bytes [off, off + n) of a buffer
ReadBytes(buf, off, n) == [j \in 0..(n - 1) |-> buf[off + j]]

\* memcpy(buf + dest, src, n): src is a byte string of at least n bytes
memcpy(buf, dest, src, n) ==
    [p \in DOMAIN buf |-> IF dest <= p /\ p < dest + n THEN src[p - dest] ELSE buf[p]]

\* memmove(buf + dest, buf + src, n) inside one allocation of `size` bytes.
\* Bytes read past the allocation are indeterminate; bytes written past it
\* do not land in the buffer.
memmove(buf, size, dest, src, n) ==
    [p \in DOMAIN buf |->
        IF dest <= p /\ p < dest + n
        THEN (IF src + (p - dest) < size THEN buf[src + (p - dest)] ELSE Indet)
        ELSE buf[p]]

\* realloc(buf, size): the old bytes are kept, the new ones are indeterminate
realloc(buf, oldsize, size) ==
    [p \in 0..(size - 1) |-> IF p < oldsize THEN buf[p] ELSE Indet]

\* a small unsigned integer as `w` little-endian bytes (n < 2^16)
LittleEndian(n, w) ==
    [j \in 0..(w - 1) |-> IF j = 0 THEN n % 256 ELSE IF j = 1 THEN (n \div 256) % 256 ELSE 0]

-----------------------------------------------------------------------------
(* size_t arithmetic on 8 little-endian bytes, modulo 2^64.                *)

\* the bytes j .. 7 of a + b + carry, as a sequence
RECURSIVE AddFrom(_, _, _, _)
AddFrom(a, b, j, carry) ==
    IF j = SizeofSizeT
    THEN <<>>
    ELSE <<(a[j] + b[j] + carry) % 256>>
         \o AddFrom(a, b, j + 1, (a[j] + b[j] + carry) \div 256)

\* a + b
SizeTAdd(a, b) ==
    LET sum == AddFrom(a, b, 0, 0)
    IN [j \in 0..(SizeofSizeT - 1) |-> sum[j + 1]]

\* a << 5
SizeTShl5(a) ==
    [j \in 0..(SizeofSizeT - 1) |->
        ((a[j] * 32) % 256) + (IF j = 0 THEN 0 ELSE a[j - 1] \div 8)]

\* the conversion of *(char*)p to size_t: char is signed on this build, so a
\* byte >= 128 is a negative number and converts to 2^64 - (256 - b)
CharToSizeT(b) ==
    [j \in 0..(SizeofSizeT - 1) |-> IF j = 0 THEN b ELSE IF b >= 128 THEN 255 ELSE 0]

\* hash = ((hash << 5) + hash + *(char*)(buffer + i)) for i, i + 1, ..., size - 1
RECURSIVE djb2_loop(_, _, _, _)
djb2_loop(hash, buffer, size, i) ==
    IF i < size
    THEN CHOOSE r \in {djb2_loop(h, buffer, size, i + 1) :
                       h \in {SizeTAdd(SizeTAdd(SizeTShl5(hash), hash),
                                       CharToSizeT(buffer[i]))}} : TRUE
    ELSE hash

tclhashmap_hash_djb2(buffer, size) ==
    djb2_loop(LittleEndian(5381, SizeofSizeT), buffer, size, 0)

\* tclhashmap_hash_djb2 of the 4-byte keys the callers use, computed once
Djb2OfKey == [k \in 0..16 |-> tclhashmap_hash_djb2(LittleEndian(k, 4), 4)]

\* a hashmap_hash_func_t a caller registers: the first byte without its low
\* bit (buffer[0] >> 1), so that keys 2 and 3 hash equal
hash_high_bits(buffer, size) ==
    IF size = 0
    THEN LittleEndian(0, SizeofSizeT)
    ELSE LittleEndian(buffer[0] \div 2, SizeofSizeT)

\* the functions a hashmap_hash_func_t points to in this model
HashFuncs == {"djb2", "high_bits"}

\* a call through the function pointer tclhashmap_hash_func
CallHashFunc(func, buffer, size) ==
    CASE func = "djb2" ->
        IF size = 4 /\ buffer[0] <= 16 /\ buffer[1] = 0 /\ buffer[2] = 0 /\ buffer[3] = 0
        THEN Djb2OfKey[buffer[0]]
        ELSE tclhashmap_hash_djb2(buffer, size)
      [] func = "high_bits" -> hash_high_bits(buffer, size)

\* hashmap_set_hash_func assigning to a copy: tclhashmap_hash_func keeps its
\* value
tclhashmap_set_hash_func_to_copy(hash_func) == tclhashmap_hash_func

\* void hashmap_set_hash_func(hashmap_hash_func_t hash_func): the new value
\* of tclhashmap_hash_func
tclhashmap_set_hash_func(hash_func) == hash_func

\* void hashmap_set_hash_func_default(): the new value of tclhashmap_hash_func
tclhashmap_set_hash_func_default == "djb2"

\* hashmap_hash_func_t hashmap_get_hash_func(): the value returned
tclhashmap_get_hash_func(current) == current

-----------------------------------------------------------------------------
(* The key and value types of a store, and their bytes.                    *)

\* the instantiations modelled: test.c's unsigned int -> float, and
\* unsigned int -> double, whose value field sits at offset 8
Types == {"uint_float", "uint_double"}

\* sizeof and offsetof of pair_t(key_type, value_type), as hashmap_init
\* derives them
Layout(t) ==
    IF t = "uint_float"
    THEN [pair_size |-> 16, key_size |-> 4, value_size |-> 4,
          key_offset |-> 0, value_offset |-> 4, hash_offset |-> 8]
    ELSE [pair_size |-> 24, key_size |-> 4, value_size |-> 8,
          key_offset |-> 0, value_offset |-> 8, hash_offset |-> 16]

\* the object representation of the unsigned int k
KeyBytes(m, k) == LittleEndian(k, m.key_size)

\* the two high bytes of the float v.0 and of the double v.0 (IEEE 754):
\* 1.0f = 3F800000, 2.0f = 40000000, 3.0f = 40400000, 4.0f = 40800000, ...
\* 1.0 = 3FF0000000000000, 2.0 = 4000000000000000, 3.0 = 4008000000000000, ...
\* every lower byte is zero
FloatHigh ==
    <<<<128, 63>>, <<0, 64>>, <<64, 64>>, <<128, 64>>, <<160, 64>>,
      <<192, 64>>, <<224, 64>>, <<0, 65>>, <<16, 65>>, <<32, 65>>,
      <<48, 65>>, <<64, 65>>>>
DoubleHigh ==
    <<<<240, 63>>, <<0, 64>>, <<8, 64>>, <<16, 64>>, <<20, 64>>,
      <<24, 64>>, <<28, 64>>, <<32, 64>>, <<34, 64>>, <<36, 64>>,
      <<38, 64>>, <<40, 64>>>>

\* the object representation of the float or double v.0, little endian
ValueBytes(m, v) ==
    LET hi == IF m.value_size = 4 THEN FloatHigh[v] ELSE DoubleHigh[v]
    IN [j \in 0..(m.value_size - 1) |->
            IF j = m.value_size - 2 THEN hi[1]
            ELSE IF j = m.value_size - 1 THEN hi[2] ELSE 0]

-----------------------------------------------------------------------------
(* The store.                                                              *)

\* hashmap_init with (hashmap).length = 1
hashmap_init_length_one(t) ==
    [pairs |-> [p \in 0..(Layout(t).pair_size * 5 - 1) |-> Indet],
     length |-> 1,
     capacity |-> 5,
     pair_size |-> Layout(t).pair_size,
     key_size |-> Layout(t).key_size,
     value_size |-> Layout(t).value_size,
     key_offset |-> Layout(t).key_offset,
     value_offset |-> Layout(t).value_offset,
     hash_offset |-> Layout(t).hash_offset]

\* hashmap_init(hashmap, key_type, value_type)
hashmap_init(t) ==
    [pairs |-> [p \in 0..(Layout(t).pair_size * 5 - 1) |-> Indet],
     length |-> 0,
     capacity |-> 5,
     pair_size |-> Layout(t).pair_size,
     key_size |-> Layout(t).key_size,
     value_size |-> Layout(t).value_size,
     key_offset |-> Layout(t).key_offset,
     value_offset |-> Layout(t).value_offset,
     hash_offset |-> Layout(t).hash_offset]

\* the size in bytes of the allocation `pairs` points to
AllocSize(m) == m.pair_size * m.capacity

TCLHASHMAP_GET_PAIR(m, i) == m.pair_size * i
TCLHASHMAP_GET_KEY(m, pair) == pair + m.key_offset
TCLHASHMAP_GET_VALUE(m, pair) == pair + m.value_offset
TCLHASHMAP_GET_HASH(m, pair) == pair + m.hash_offset

\* offsetof(struct _pair_t, value): &current_pair->value is current_pair
\* plus the size of the uint8_t* key field before it
PairT_value_offset == SizeofPtr

\* *current_hash for the pair at index i
StoredHash(m, i) ==
    ReadBytes(m.pairs, TCLHASHMAP_GET_HASH(m, TCLHASHMAP_GET_PAIR(m, i)), SizeofSizeT)
StoredKey(m, i) ==
    ReadBytes(m.pairs, TCLHASHMAP_GET_KEY(m, TCLHASHMAP_GET_PAIR(m, i)), m.key_size)
StoredValue(m, i) ==
    ReadBytes(m.pairs, TCLHASHMAP_GET_VALUE(m, TCLHASHMAP_GET_PAIR(m, i)), m.value_size)
\* all the bytes of the pair at index i
StoredPair(m, i) == ReadBytes(m.pairs, TCLHASHMAP_GET_PAIR(m, i), m.pair_size)

\* the loop shared by set, erase, get and exists: the first index i < length
\* whose stored hash equals `hash`, scanning from index i
RECURSIVE HashScan(_, _, _)
HashScan(m, hash, i) ==
    IF i < m.length
    THEN (IF StoredHash(m, i) = hash THEN i ELSE HashScan(m, hash, i + 1))
    ELSE NotFound

-----------------------------------------------------------------------------
(* tclhashmap_set                                                          *)

\* the branch taken when the scan finds a matching hash at index i:
\* memcpy(&current_pair->value, value, hashmap->value_size)
set_update(m, i, value) ==
    [m EXCEPT !.pairs = memcpy(@, TCLHASHMAP_GET_PAIR(m, i) + PairT_value_offset,
                               value, m.value_size)]

\* set_grow with capacity += capacity / 2 + 1, the policy of array_add
set_grow_plus_one(m) ==
    IF m.capacity <= m.length
    THEN [m EXCEPT !.capacity = @ + (@ \div 2) + 1,
                   !.pairs = realloc(@, AllocSize(m),
                                     m.pair_size * (m.capacity + (m.capacity \div 2) + 1))]
    ELSE m

\* set_grow with the test capacity < length: the buffer grows one set late
set_grow_late(m) ==
    IF m.capacity < m.length
    THEN [m EXCEPT !.capacity = @ + (@ \div 2),
                   !.pairs = realloc(@, AllocSize(m),
                                     m.pair_size * (m.capacity + (m.capacity \div 2)))]
    ELSE m

\* set_grow with malloc in place of realloc: the old bytes are not carried
\* over to the new buffer
set_grow_malloc(m) ==
    IF m.capacity <= m.length
    THEN [m EXCEPT !.capacity = @ + (@ \div 2),
                   !.pairs = [p \in 0..(m.pair_size * (m.capacity + (m.capacity \div 2)) - 1)
                                 |-> Indet]]
    ELSE m

\* if (capacity <= length) { capacity += capacity / 2; pairs = realloc(...); }
set_grow(m) ==
    IF m.capacity <= m.length
    THEN [m EXCEPT !.capacity = @ + (@ \div 2),
                   !.pairs = realloc(@, AllocSize(m),
                                     m.pair_size * (m.capacity + (m.capacity \div 2)))]
    ELSE m

\* set_append that puts the new record first: the records move up by one
\* slot and the new one is written at index 0
set_append_front(m, key, value, hash) ==
    LET g == set_grow(m)
        up == [g EXCEPT !.pairs = memmove(@, AllocSize(g), g.pair_size, 0,
                                          g.pair_size * g.length)]
    IN [up EXCEPT !.pairs = memcpy(memcpy(memcpy(@, up.key_offset, key, up.key_size),
                                          up.value_offset, value, up.value_size),
                                   up.hash_offset, hash, SizeofSizeT),
                  !.length = @ + 1]

\* the append after the scan found nothing
set_append(m, key, value, hash) ==
    LET g == set_grow(m)
        dest_pair == TCLHASHMAP_GET_PAIR(g, g.length)
        dest_key == TCLHASHMAP_GET_KEY(g, dest_pair)
        dest_value == TCLHASHMAP_GET_VALUE(g, dest_pair)
        dest_hash == TCLHASHMAP_GET_HASH(g, dest_pair)
    IN [g EXCEPT !.pairs = memcpy(memcpy(memcpy(@, dest_key, key, g.key_size),
                                         dest_value, value, g.value_size),
                                  dest_hash, hash, SizeofSizeT),
                 !.length = @ + 1]

tclhashmap_set(m, func, key, value) ==
    LET hash == CallHashFunc(func, key, m.key_size)
        i == HashScan(m, hash, 0)
    IN IF i # NotFound THEN set_update(m, i, value) ELSE set_append(m, key, value, hash)

-----------------------------------------------------------------------------
(* tclhashmap_erase                                                        *)

\* the third argument of the memmove: hashmap->pair_size * hashmap->length - i
erase_count(m, i) == m.pair_size * m.length - i

\* the memmove reads [pair_after, pair_after + count) and writes
\* [current_pair, current_pair + count); reading or writing past the
\* allocation is undefined behaviour
erase_overruns(m, i) ==
    TCLHASHMAP_GET_PAIR(m, i + 1) + erase_count(m, i) > AllocSize(m)

\* the branch taken when the scan finds a matching hash at index i
erase_move(m, i) ==
    [m EXCEPT !.pairs = memmove(@, AllocSize(m), TCLHASHMAP_GET_PAIR(m, i),
                                TCLHASHMAP_GET_PAIR(m, i + 1), erase_count(m, i)),
              !.length = @ - 1]

\* tclhashmap_erase that gives back unused capacity: after the move,
\* capacity = length and the buffer is reallocated to that size
tclhashmap_erase_shrinking(m, func, key) ==
    LET hash == CallHashFunc(func, key, m.key_size)
        i == HashScan(m, hash, 0)
        e == erase_move(m, i)
    IN IF i # NotFound
       THEN [e EXCEPT !.capacity = e.length,
                      !.pairs = realloc(@, AllocSize(m), m.pair_size * e.length)]
       ELSE m

\* tclhashmap_erase with hashmap->length-- after the loop instead of inside
\* the matching branch
tclhashmap_erase_always_decrements(m, func, key) ==
    LET hash == CallHashFunc(func, key, m.key_size)
        i == HashScan(m, hash, 0)
    IN IF i # NotFound
       THEN erase_move(m, i)
       ELSE [m EXCEPT !.length = IF @ > 0 THEN @ - 1 ELSE @]

tclhashmap_erase(m, func, key) ==
    LET hash == CallHashFunc(func, key, m.key_size)
        i == HashScan(m, hash, 0)
    IN IF i # NotFound THEN erase_move(m, i) ELSE m

-----------------------------------------------------------------------------
(* tclhashmap_get, tclhashmap_exists, tclhashmap_iterate                   *)

\* tclhashmap_exists with the scan run to capacity instead of length
tclhashmap_exists_to_capacity(m, func, key) ==
    LET hash == CallHashFunc(func, key, m.key_size)
    IN HashScan([m EXCEPT !.length = m.capacity], hash, 0) # NotFound

\* tclhashmap_get returning TCLHASHMAP_GET_KEY of the matching pair
tclhashmap_get_key_pointer(m, func, key) ==
    LET hash == CallHashFunc(func, key, m.key_size)
        i == HashScan(m, hash, 0)
    IN IF i # NotFound
       THEN TCLHASHMAP_GET_KEY(m, TCLHASHMAP_GET_PAIR(m, i))
       ELSE NULL

tclhashmap_get(m, func, key) ==
    LET hash == CallHashFunc(func, key, m.key_size)
        i == HashScan(m, hash, 0)
    IN IF i # NotFound
       THEN TCLHASHMAP_GET_VALUE(m, TCLHASHMAP_GET_PAIR(m, i))
       ELSE NULL

\* tclhashmap_exists with the scan started at index 1
tclhashmap_exists_from_one(m, func, key) ==
    LET hash == CallHashFunc(func, key, m.key_size)
        i == HashScan(m, hash, 1)
    IN i # NotFound

tclhashmap_exists(m, func, key) ==
    LET hash == CallHashFunc(func, key, m.key_size)
        i == HashScan(m, hash, 0)
    IN i # NotFound

\* the calls func(key, value, user_data) made from index i on, in order;
\* each call is the pair of pointers passed
RECURSIVE iterate_loop(_, _)
iterate_loop(m, i) ==
    IF i < m.length
    THEN <<[key |-> TCLHASHMAP_GET_KEY(m, TCLHASHMAP_GET_PAIR(m, i)),
            value |-> TCLHASHMAP_GET_VALUE(m, TCLHASHMAP_GET_PAIR(m, i))]>>
         \o iterate_loop(m, i + 1)
    ELSE <<>>

\* tclhashmap_iterate with the loop started at index 1
tclhashmap_iterate_from_one(m) == iterate_loop(m, 1)

tclhashmap_iterate(m) == iterate_loop(m, 0)

-----------------------------------------------------------------------------
(* The caller: one store, and the operations applied to it.                *)
(*                                                                         *)
(* hashmap              the store (the hashmap_t struct and its buffer)    *)
(* tclhashmap_hash_func the process-wide hash function pointer             *)
(* main_key             main's local `key`: the key of its next set        *)
(* status               "ok", or "crashed" once undefined behaviour has    *)
(*                      ended the process                                  *)
(* last                 the last operation called: its arguments, what it  *)
(*                      returned, the hash it computed and the function it *)
(*                      called for it, and length and capacity (for a      *)
(*                      write through a pointer, the buffer too) before it *)
(* clean                history: whether every operation so far that       *)
(*                      changed the store was a set that appended (ok),    *)
(*                      the (key, value) pairs appended, in order (ins),   *)
(*                      the hash function they were appended under (func), *)
(*                      whether a get or exists has since run under        *)
(*                      another hash function (away), and the (key, value) *)
(*                      last written through a pointer hashmap_get         *)
(*                      returned, with the hash function and the pointer,  *)
(*                      until the next erase or updating set (wr)          *)
(* hashmap2             a second store of the same process with its        *)
(*                      history, and its number                            *)
(* array                an array_t(type) struct and its buffer             *)
(* key_buffer           the bytes handed to the hash function              *)
(* hash_func_arg        history: the function last passed to               *)
(*                      hashmap_set_hash_func; djb2 initially and after    *)
(*                      hashmap_set_hash_func_default                      *)

Keys == 1..MaxKey
\* the values 1.0 and 2.0
Values == {1, 2}
\* keys looked up or erased: MaxKey + 1 is never set
ProbeKeys == 1..(MaxKey + 1)
GrowProbeKeys == 1..(GrowMaxKey + 1)

NoCall ==
    [op |-> "init", key |-> 0, value |-> 0, idx |-> NotFound, ret |-> NULL,
     found |-> FALSE, calls |-> <<>>, moved |-> 0, prelen |-> 0, precap |-> 0,
     repeat |-> FALSE, hash |-> <<>>, func |-> "djb2", pre |-> <<>>]

\* the history of a store on which something other than an appending set
\* has changed a byte
Dirty == [ok |-> FALSE, ins |-> <<>>, func |-> "djb2", away |-> FALSE, wr |-> <<>>]

\* the history of a store just initialised
Fresh == [ok |-> TRUE, ins |-> <<>>, func |-> "djb2", away |-> FALSE, wr |-> <<>>]

\* no second store, no array, no buffer: main of test.c has one store only
NoStore == [m |-> <<>>, clean |-> Dirty, id |-> 0]
NoArray == [buffer |-> <<>>, capacity |-> 0, elem_size |-> 0, length |-> 0]
NoBuffer == <<>>
\* no stack, no string
NoStack == [buffer |-> <<>>, elem_size |-> 0, length |-> 0, capacity |-> 0]
NoString == [buffer |-> <<>>, length |-> 0]
\* no bitset
NoBitset == [bits |-> <<>>, num_uint8 |-> 0, num_bits |-> 0]

\* main up to its first hashmap_set: unsigned int key = 1; hashmap_init(...)
Init ==
    /\ hashmap \in {hashmap_init(t) : t \in Types}
    /\ tclhashmap_hash_func = "djb2"
    /\ main_key = 1
    /\ status = "ok"
    /\ last = NoCall
    /\ bitset_a = NoBitset
    /\ bitset_b = NoBitset
    /\ stack = NoStack
    /\ string_a = NoString
    /\ string_b = NoString
    /\ clean = Fresh
    /\ hashmap2 = NoStore
    /\ array = NoArray
    /\ key_buffer = NoBuffer
    /\ hash_func_arg = "djb2"

\* hashmap_set(hashmap, key, value) with key in K and value in V
hashmap_set(K, V, L) ==
    /\ status = "ok"
    /\ \E k \in K, v \in V :
        LET kb == KeyBytes(hashmap, k)
            vb == ValueBytes(hashmap, v)
            hash == CallHashFunc(tclhashmap_hash_func, kb, hashmap.key_size)
            i == HashScan(hashmap, hash, 0)
            m2 == tclhashmap_set(hashmap, tclhashmap_hash_func, kb, vb)
        IN /\ m2.length <= L
           /\ hashmap' = m2
           /\ last' = [NoCall EXCEPT !.op = "set", !.key = k, !.value = v, !.idx = i,
                                     !.found = (i # NotFound),
                                     !.prelen = hashmap.length,
                                     !.precap = hashmap.capacity,
                                     !.repeat = (last.op = "set" /\ last.key = k),
                                     !.hash = hash,
                                     !.func = tclhashmap_hash_func]
           /\ clean' = IF /\ clean.ok
                          /\ i = NotFound
                          /\ clean.ins # <<>> => clean.func = tclhashmap_hash_func
                       THEN [clean EXCEPT !.ins = Append(@, <<k, v>>),
                                          !.func = tclhashmap_hash_func,
                                          !.away = FALSE]
                       ELSE [Dirty EXCEPT !.wr = IF i = NotFound THEN clean.wr ELSE <<>>]
    /\ UNCHANGED <<tclhashmap_hash_func, status, hashmap2, array, key_buffer, stack, string_a, string_b, bitset_a, bitset_b, hash_func_arg>>

\* hashmap_erase(hashmap, key) with key in K.  When the memmove overruns the
\* allocation the behaviour is undefined: the call either returns, or the
\* process ends.
hashmap_erase(K) ==
    /\ status = "ok"
    /\ \E k \in K :
        LET kb == KeyBytes(hashmap, k)
            hash == CallHashFunc(tclhashmap_hash_func, kb, hashmap.key_size)
            i == HashScan(hashmap, hash, 0)
        IN /\ last' = [NoCall EXCEPT !.op = "erase", !.key = k, !.idx = i,
                                     !.found = (i # NotFound),
                                     !.moved = IF i # NotFound
                                               THEN erase_count(hashmap, i) ELSE 0,
                                     !.prelen = hashmap.length,
                                     !.precap = hashmap.capacity,
                                     !.hash = hash,
                                     !.func = tclhashmap_hash_func]
           /\ clean' = IF i = NotFound THEN clean ELSE Dirty
           /\ \/ /\ hashmap' = tclhashmap_erase(hashmap, tclhashmap_hash_func, kb)
                 /\ status' = "ok"
              \/ /\ i # NotFound
                 /\ erase_overruns(hashmap, i)
                 /\ hashmap' = hashmap
                 /\ status' = "crashed"
    /\ UNCHANGED <<tclhashmap_hash_func, main_key, hashmap2, array, key_buffer, stack, string_a, string_b, bitset_a, bitset_b, hash_func_arg>>

\* hashmap_get(hashmap, key) with key in K
hashmap_get(K) ==
    /\ status = "ok"
    /\ \E k \in K :
        LET ret == tclhashmap_get(hashmap, tclhashmap_hash_func, KeyBytes(hashmap, k))
            hash == CallHashFunc(tclhashmap_hash_func, KeyBytes(hashmap, k), hashmap.key_size)
        IN /\ last' = [NoCall EXCEPT !.op = "get", !.key = k, !.ret = ret,
                                     !.idx = HashScan(hashmap, hash, 0),
                                     !.found = (ret # NULL),
                                     !.prelen = hashmap.length,
                                     !.precap = hashmap.capacity,
                                     !.hash = hash,
                                     !.func = tclhashmap_hash_func]
           /\ clean' = [clean EXCEPT !.away = @ \/ (clean.ok /\ clean.ins # <<>>
                                                    /\ clean.func # tclhashmap_hash_func)]
    /\ UNCHANGED <<hashmap, tclhashmap_hash_func, main_key, status, hashmap2, array, key_buffer, stack, string_a, string_b, bitset_a, bitset_b, hash_func_arg>>

\* hashmap_exists(hashmap, key) with key in K
hashmap_exists(K) ==
    /\ status = "ok"
    /\ \E k \in K :
        /\ last' = [NoCall EXCEPT !.op = "exists", !.key = k,
                                  !.found = tclhashmap_exists(hashmap, tclhashmap_hash_func,
                                                              KeyBytes(hashmap, k)),
                                  !.prelen = hashmap.length,
                                  !.precap = hashmap.capacity,
                                  !.hash = CallHashFunc(tclhashmap_hash_func,
                                                        KeyBytes(hashmap, k), hashmap.key_size),
                                  !.func = tclhashmap_hash_func]
        /\ clean' = [clean EXCEPT !.away = @ \/ (clean.ok /\ clean.ins # <<>>
                                                 /\ clean.func # tclhashmap_hash_func)]
    /\ UNCHANGED <<hashmap, tclhashmap_hash_func, main_key, status, hashmap2, array, key_buffer, stack, string_a, string_b, bitset_a, bitset_b, hash_func_arg>>

\* hashmap_iterate(hashmap, iterator, user_data) with an iterator that only
\* reads what it is passed
hashmap_iterate ==
    /\ status = "ok"
    /\ last' = [NoCall EXCEPT !.op = "iterate", !.calls = tclhashmap_iterate(hashmap),
                              !.prelen = hashmap.length,
                              !.precap = hashmap.capacity]
    /\ UNCHANGED <<hashmap, tclhashmap_hash_func, main_key, status, clean,
                   hashmap2, array, key_buffer, stack, string_a, string_b, bitset_a, bitset_b, hash_func_arg>>

\* a caller that sets any of a few keys to any of a few values
SetAny == hashmap_set(Keys, Values, MaxLen) /\ UNCHANGED main_key

\* main's hashmap_set(map, key, value); key++; value++; (value is key.0)
SetNext ==
    /\ main_key <= GrowMaxKey
    /\ hashmap_set({main_key}, {main_key}, GrowMaxKey)
    /\ main_key' = main_key + 1

\* any sequence of calls on a store, with a few keys and values
Next ==
    \/ SetAny
    \/ hashmap_erase(ProbeKeys)
    \/ hashmap_get(ProbeKeys)
    \/ hashmap_exists(ProbeKeys)
    \/ hashmap_iterate

Spec == Init /\ [][Next]_vars

\* main's sequence of sets, continued past the initial capacity, with any
\* erase, get, exists and iterate calls in between
NextGrow ==
    \/ SetNext
    \/ hashmap_erase(GrowProbeKeys)
    \/ hashmap_get(GrowProbeKeys)
    \/ hashmap_exists(GrowProbeKeys)
    \/ hashmap_iterate

SpecGrow == Init /\ [][NextGrow]_vars

\* main's sequence of sets continued to FillMaxKey keys, with lookups in
\* between and no erase
FillKeys == 1..(FillMaxKey + 1)

SetNextFill ==
    /\ main_key <= FillMaxKey
    /\ hashmap_set({main_key}, {main_key}, FillMaxKey)
    /\ main_key' = main_key + 1

NextFill ==
    \/ SetNextFill
    \/ hashmap_get(FillKeys)
    \/ hashmap_exists(FillKeys)

SpecFill == Init /\ [][NextFill]_vars

\* main's sequence of sets continued past the initial capacity, each key
\* set with value 1.0; in between, key 1 is set again with value 2.0 once
\* it has been set, the keys 1 and 2 are erased and looked up, and the
\* store is iterated
MixAgainKeys == {1}
MixProbeKeys == {1, 2}

SetNextMix ==
    /\ main_key <= MixMaxKey
    /\ hashmap_set({main_key}, {1}, MixMaxKey)
    /\ main_key' = main_key + 1

SetAgainMix ==
    /\ hashmap_set((1..(main_key - 1)) \cap MixAgainKeys, {2}, MixMaxKey)
    /\ UNCHANGED main_key

NextMix ==
    \/ SetNextMix
    \/ SetAgainMix
    \/ hashmap_erase(MixProbeKeys)
    \/ hashmap_get(MixProbeKeys)
    \/ hashmap_exists(MixProbeKeys)
    \/ hashmap_iterate

SpecMix == Init /\ [][NextMix]_vars

-----------------------------------------------------------------------------
(* The hash function registry, a second store, and writes through the      *)
(* pointer hashmap_get returns.                                            *)

\* a hashmap_set_hash_func that also rehashes the records of the store in
\* use with the new function
hashmap_set_hash_func_rehashing(F) ==
    /\ status = "ok"
    /\ \E f \in F :
        LET rehashed[i \in 0..hashmap.length] ==
                IF i = hashmap.length
                THEN hashmap
                ELSE [rehashed[i + 1] EXCEPT !.pairs =
                         memcpy(@, TCLHASHMAP_GET_HASH(hashmap, TCLHASHMAP_GET_PAIR(hashmap, i)),
                                CallHashFunc(f, StoredKey(hashmap, i), hashmap.key_size),
                                SizeofSizeT)]
        IN /\ tclhashmap_hash_func' = tclhashmap_set_hash_func(f)
           /\ hash_func_arg' = f
           /\ last' = [NoCall EXCEPT !.op = "set_hash_func", !.func = f]
           /\ hashmap' = rehashed[0]
    /\ UNCHANGED <<main_key, status, clean, hashmap2, array, key_buffer, stack, string_a, string_b, bitset_a, bitset_b>>

\* hashmap_set_hash_func(f) with f in F
hashmap_set_hash_func(F) ==
    /\ status = "ok"
    /\ \E f \in F :
        /\ tclhashmap_hash_func' = tclhashmap_set_hash_func(f)
        /\ hash_func_arg' = f
        /\ last' = [NoCall EXCEPT !.op = "set_hash_func", !.func = f]
    /\ UNCHANGED <<hashmap, main_key, status, clean, hashmap2, array, key_buffer, stack, string_a, string_b, bitset_a, bitset_b>>

\* hashmap_set_hash_func_default()
hashmap_set_hash_func_default ==
    /\ status = "ok"
    /\ tclhashmap_hash_func' = tclhashmap_set_hash_func_default
    /\ hash_func_arg' = "djb2"
    /\ last' = [NoCall EXCEPT !.op = "set_hash_func_default"]
    /\ UNCHANGED <<hashmap, main_key, status, clean, hashmap2, array, key_buffer, stack, string_a, string_b, bitset_a, bitset_b>>

\* hashmap_get_hash_func(): last.func is the pointer returned
hashmap_get_hash_func ==
    /\ status = "ok"
    /\ last' = [NoCall EXCEPT !.op = "get_hash_func",
                              !.func = tclhashmap_get_hash_func(tclhashmap_hash_func)]
    /\ UNCHANGED <<hashmap, tclhashmap_hash_func, main_key, status, clean,
                   hashmap2, array, key_buffer, stack, string_a, string_b, bitset_a, bitset_b, hash_func_arg>>

\* the caller turns to its other store: its next calls pass that one
use_other_store ==
    /\ status = "ok"
    /\ hashmap2.id # 0
    /\ hashmap' = hashmap2.m
    /\ clean' = hashmap2.clean
    /\ hashmap2' = [m |-> hashmap, clean |-> clean, id |-> 3 - hashmap2.id]
    /\ last' = [NoCall EXCEPT !.op = "use_other_store"]
    /\ UNCHANGED <<tclhashmap_hash_func, main_key, status, array, key_buffer, stack, string_a, string_b, bitset_a, bitset_b, hash_func_arg>>

\* *p = value, p being the pointer the hashmap_get just made returned, with
\* value in V
write_through_get(V) ==
    /\ status = "ok"
    /\ last.op = "get"
    /\ last.ret # NULL
    /\ \E v \in V :
        /\ hashmap' = [hashmap EXCEPT !.pairs = memcpy(@, last.ret, ValueBytes(hashmap, v),
                                                       hashmap.value_size)]
        /\ last' = [NoCall EXCEPT !.op = "write", !.key = last.key, !.value = v,
                                  !.ret = last.ret, !.idx = last.idx,
                                  !.found = TRUE, !.func = tclhashmap_hash_func,
                                  !.prelen = hashmap.length,
                                  !.precap = hashmap.capacity,
                                  !.pre = hashmap.pairs]
        /\ clean' = [Dirty EXCEPT !.wr = <<last.key, v, tclhashmap_hash_func, last.ret>>]
    /\ UNCHANGED <<tclhashmap_hash_func, main_key, status, hashmap2, array, key_buffer, stack, string_a, string_b, bitset_a, bitset_b,
                   hash_func_arg>>

\* keys the caller of SpecWrite uses: 1 .. WriteMaxKey
WriteKeys == 1..WriteMaxKey

\* hashmap_set(map, key, value); key++; value++; as main does, up to WriteMaxKey
SetNextWrite ==
    /\ main_key <= WriteMaxKey
    /\ hashmap_set({main_key}, {main_key}, WriteMaxKey)
    /\ main_key' = main_key + 1

\* main's sequence of sets with any other calls in between, the caller
\* also writing through the pointers hashmap_get returns
NextWrite ==
    \/ SetNextWrite
    \/ hashmap_erase(WriteKeys)
    \/ hashmap_get(WriteKeys)
    \/ hashmap_exists(WriteKeys)
    \/ hashmap_iterate
    \/ write_through_get(Values)

SpecWrite == Init /\ [][NextWrite]_vars

\* keys the caller of SpecHash uses: 1 .. HashMaxKey
HashKeys == 1..HashMaxKey

\* a process with two stores of different types
InitHash ==
    /\ hashmap = hashmap_init("uint_float")
    /\ hashmap2 = [m |-> hashmap_init("uint_double"), clean |-> Fresh, id |-> 2]
    /\ tclhashmap_hash_func = "djb2"
    /\ hash_func_arg = "djb2"
    /\ main_key = 1
    /\ status = "ok"
    /\ last = NoCall
    /\ bitset_a = NoBitset
    /\ bitset_b = NoBitset
    /\ stack = NoStack
    /\ string_a = NoString
    /\ string_b = NoString
    /\ clean = Fresh
    /\ array = NoArray
    /\ key_buffer = NoBuffer

\* hashmap_set(map, key, value); key++; value++; on the store in use
SetNextHash ==
    /\ main_key <= HashMaxKey
    /\ hashmap_set({main_key}, {main_key}, HashMaxKey)
    /\ main_key' = main_key + 1

\* any sequence of calls on either of two stores, with the hash function
\* swapped at any time
NextHash ==
    \/ SetNextHash
    \/ hashmap_erase(HashKeys)
    \/ hashmap_get(HashKeys)
    \/ hashmap_exists(HashKeys)
    \/ hashmap_set_hash_func(HashFuncs)
    \/ hashmap_set_hash_func_default
    \/ hashmap_get_hash_func
    \/ use_other_store

SpecHash == InitHash /\ [][NextHash]_vars

-----------------------------------------------------------------------------
(* The dynamic array of src/array.h.  `buffer` is modelled byte by byte,   *)
(* as `pairs` is; element i occupies the bytes [i * elem_size,             *)
(* (i + 1) * elem_size).  The macros are operators on the struct; an       *)
(* assert that fails ends the process (assertions are enabled unless       *)
(* NDEBUG is defined).                                                     *)

\* the element types modelled, by sizeof(type): uint8_t and unsigned int
ElemSizes == {1, 4}

\* array_init(array, type, func)
array_init(elem_size) ==
    [buffer |-> [p \in 0..(elem_size * 5 - 1) |-> Indet],
     capacity |-> 5,
     elem_size |-> elem_size,
     length |-> 0]

\* the object representation of the element e
ElemBytes(a, e) == LittleEndian(e, a.elem_size)

\* (array).buffer[i] read as bytes
array_elem(a, i) == ReadBytes(a.buffer, i * a.elem_size, a.elem_size)

\* (array).buffer[i] = elem
array_store(a, i, elem) ==
    [a EXCEPT !.buffer = memcpy(@, i * a.elem_size, elem, a.elem_size)]

\* if (capacity <= length) { capacity += capacity / 2 + 1; buffer = realloc(...); }
array_grow(a) ==
    IF a.capacity <= a.length
    THEN [a EXCEPT !.capacity = @ + (@ \div 2) + 1,
                   !.buffer = realloc(@, a.elem_size * a.capacity,
                                      a.elem_size * (a.capacity + (a.capacity \div 2) + 1))]
    ELSE a

\* array_add(array, elem)
array_add(a, elem) ==
    LET g == array_grow(a)
    IN [array_store(g, g.length, elem) EXCEPT !.length = @ + 1]

\* the assert of array_insert: (index) > 0 && (index) < (array).length
array_insert_assert(a, index) == index > 0 /\ index < a.length

\* array_insert(array, elem, index) past its assert:
\* memmove(&buffer[index + 1], &buffer[index], length - index); the third
\* argument is a number of bytes
array_insert(a, elem, index) ==
    LET g == array_grow(a)
        moved == [g EXCEPT !.buffer = memmove(@, g.elem_size * g.capacity,
                                              (index + 1) * g.elem_size,
                                              index * g.elem_size,
                                              g.length - index)]
    IN [array_store(moved, index, elem) EXCEPT !.length = @ + 1]

\* the assert of array_remove_index: (index) > 0 && (index) < (array).length
array_remove_index_assert(a, index) == index > 0 /\ index < a.length

\* for (size_t i = index; i < length - 1; i++) buffer[i] = buffer[i + 1];
RECURSIVE array_remove_loop(_, _)
array_remove_loop(a, i) ==
    IF i < a.length - 1
    THEN array_remove_loop(array_store(a, i, array_elem(a, i + 1)), i + 1)
    ELSE a

\* array_remove_index(array, index) past its assert
array_remove_index(a, index) ==
    IF index < a.length
    THEN [array_remove_loop(a, index) EXCEPT !.length = @ - 1]
    ELSE a

\* array_get_index(array, elem, i): the first i < length with
\* compare_function(buffer[i], elem), scanning from i; NotFound is the -1
RECURSIVE array_get_index(_, _, _)
array_get_index(a, elem, i) ==
    IF i < a.length
    THEN (IF array_elem(a, i) = elem THEN i ELSE array_get_index(a, elem, i + 1))
    ELSE NotFound

\* array_reserve(array, new_size): if (new_size > capacity) { buffer =
\* malloc(new_size * elem_size); capacity = new_size; }  The new buffer is
\* uninitialised and nothing is copied into it.
array_reserve(a, new_size) ==
    IF new_size > a.capacity
    THEN [a EXCEPT !.buffer = [p \in 0..(new_size * a.elem_size - 1) |-> Indet],
                   !.capacity = new_size]
    ELSE a

\* the sizes the caller of SpecArray reserves
ReserveSizes == {4, 7}

\* elements the caller of SpecArray stores
Elems == {1, 2}

\* a caller with one array of uint8_t or of unsigned int; main_key counts
\* its calls that insert, remove or reserve, from 1
InitArray ==
    /\ array \in {array_init(es) : es \in ElemSizes}
    /\ status = "ok"
    /\ last = NoCall
    /\ bitset_a = NoBitset
    /\ bitset_b = NoBitset
    /\ stack = NoStack
    /\ string_a = NoString
    /\ string_b = NoString
    /\ hashmap = hashmap_init("uint_float")
    /\ hashmap2 = NoStore
    /\ tclhashmap_hash_func = "djb2"
    /\ hash_func_arg = "djb2"
    /\ main_key = 1
    /\ clean = Fresh
    /\ key_buffer = NoBuffer

\* array_add(array, elem) with elem in E
call_array_add(E) ==
    /\ status = "ok"
    /\ array.length < ArrayMaxLen
    /\ \E e \in E :
        /\ array' = array_add(array, ElemBytes(array, e))
        /\ last' = [NoCall EXCEPT !.op = "array_add", !.value = e, !.idx = array.length,
                                  !.prelen = array.length, !.precap = array.capacity,
                                  !.pre = array]
    /\ UNCHANGED <<hashmap, tclhashmap_hash_func, main_key, status, clean,
                   hashmap2, key_buffer, stack, string_a, string_b, bitset_a, bitset_b, hash_func_arg>>

\* array_insert(array, elem, index) with elem in E and 0 <= index < length
call_array_insert(E) ==
    /\ status = "ok"
    /\ main_key <= ArrayMaxCalls
    /\ main_key' = main_key + 1
    /\ array.length < ArrayMaxLen
    /\ \E e \in E, index \in 0..(array.length - 1) :
        /\ last' = [NoCall EXCEPT !.op = "array_insert", !.value = e, !.idx = index,
                                  !.prelen = array.length, !.precap = array.capacity,
                                  !.pre = array]
        /\ IF array_insert_assert(array, index)
           THEN array' = array_insert(array, ElemBytes(array, e), index) /\ status' = "ok"
           ELSE array' = array /\ status' = "aborted"
    /\ UNCHANGED <<hashmap, tclhashmap_hash_func, clean,
                   hashmap2, key_buffer, stack, string_a, string_b, bitset_a, bitset_b, hash_func_arg>>

\* array_remove_index(array, index) with 0 <= index < length
call_array_remove_index ==
    /\ status = "ok"
    /\ main_key <= ArrayMaxCalls
    /\ main_key' = main_key + 1
    /\ \E index \in 0..(array.length - 1) :
        /\ last' = [NoCall EXCEPT !.op = "array_remove_index", !.idx = index,
                                  !.found = TRUE,
                                  !.prelen = array.length, !.precap = array.capacity,
                                  !.pre = array]
        /\ IF array_remove_index_assert(array, index)
           THEN array' = array_remove_index(array, index) /\ status' = "ok"
           ELSE array' = array /\ status' = "aborted"
    /\ UNCHANGED <<hashmap, tclhashmap_hash_func, clean,
                   hashmap2, key_buffer, stack, string_a, string_b, bitset_a, bitset_b, hash_func_arg>>

\* array_pop(array) on an array that is not empty:
\* array_remove_index(array, length - 1)
call_array_pop ==
    /\ status = "ok"
    /\ main_key <= ArrayMaxCalls
    /\ main_key' = main_key + 1
    /\ array.length >= 1
    /\ last' = [NoCall EXCEPT !.op = "array_pop", !.idx = array.length - 1,
                              !.found = TRUE,
                              !.prelen = array.length, !.precap = array.capacity,
                              !.pre = array]
    /\ IF array_remove_index_assert(array, array.length - 1)
       THEN array' = array_remove_index(array, array.length - 1) /\ status' = "ok"
       ELSE array' = array /\ status' = "aborted"
    /\ UNCHANGED <<hashmap, tclhashmap_hash_func, clean,
                   hashmap2, key_buffer, stack, string_a, string_b, bitset_a, bitset_b, hash_func_arg>>

\* array_remove(array, elem) with elem in E: array_get_index, then
\* array_remove_index when the index is not -1
call_array_remove(E) ==
    /\ status = "ok"
    /\ main_key <= ArrayMaxCalls
    /\ main_key' = main_key + 1
    /\ \E e \in E :
        LET index == array_get_index(array, ElemBytes(array, e), 0)
        IN /\ last' = [NoCall EXCEPT !.op = "array_remove", !.value = e, !.idx = index,
                                     !.found = (index # NotFound),
                                     !.prelen = array.length, !.precap = array.capacity,
                                     !.pre = array]
           /\ IF index = NotFound
              THEN array' = array /\ status' = "ok"
              ELSE IF array_remove_index_assert(array, index)
                   THEN array' = array_remove_index(array, index) /\ status' = "ok"
                   ELSE array' = array /\ status' = "aborted"
    /\ UNCHANGED <<hashmap, tclhashmap_hash_func, clean,
                   hashmap2, key_buffer, stack, string_a, string_b, bitset_a, bitset_b, hash_func_arg>>

\* array_reserve(array, new_size) with new_size in N
call_array_reserve(N) ==
    /\ status = "ok"
    /\ main_key <= ArrayMaxCalls
    /\ main_key' = main_key + 1
    /\ \E n \in N :
        /\ array' = array_reserve(array, n)
        /\ last' = [NoCall EXCEPT !.op = "array_reserve", !.idx = n,
                                  !.prelen = array.length, !.precap = array.capacity,
                                  !.pre = array]
    /\ UNCHANGED <<hashmap, tclhashmap_hash_func, status, clean,
                   hashmap2, key_buffer, stack, string_a, string_b, bitset_a, bitset_b, hash_func_arg>>

\* any sequence of calls on an array with at most ArrayMaxCalls insertions,
\* removals and reservations
NextArray ==
    \/ call_array_add(Elems)
    \/ call_array_insert(Elems)
    \/ call_array_remove_index
    \/ call_array_pop
    \/ call_array_remove(Elems)
    \/ call_array_reserve(ReserveSizes)

SpecArray == InitArray /\ [][NextArray]_vars

-----------------------------------------------------------------------------
(* The stack of src/stack.h: the same byte-level buffer as the array.      *)

\* stack_init(_stack, _type)
stack_init(elem_size) ==
    [buffer |-> [p \in 0..(elem_size * 5 - 1) |-> Indet],
     elem_size |-> elem_size,
     length |-> 0,
     capacity |-> 5]

\* (_stack).buffer[i] read as bytes
stack_elem(s, i) == ReadBytes(s.buffer, i * s.elem_size, s.elem_size)

\* stack_push(_stack, _elem): grow when length >= capacity, store, length++
stack_push(s, elem) ==
    LET g == IF s.length >= s.capacity
             THEN [s EXCEPT !.capacity = @ + (@ \div 2) + 1,
                            !.buffer = realloc(@, s.elem_size * s.capacity,
                                               s.elem_size * (s.capacity + (s.capacity \div 2) + 1))]
             ELSE s
    IN [g EXCEPT !.buffer = memcpy(@, g.length * g.elem_size, elem, g.elem_size),
                 !.length = @ + 1]

\* a stack_pop that returns the bottom element
stack_pop_bottom(s) ==
    [s |-> [s EXCEPT !.length = @ - 1],
     ret |-> stack_elem(s, 0)]

\* stack_pop(_stack): (_stack).buffer[--(_stack).length], on a stack that is
\* not empty
stack_pop(s) ==
    [s |-> [s EXCEPT !.length = @ - 1],
     ret |-> stack_elem(s, s.length - 1)]

\* stack_shrink(_stack): realloc(buffer, capacity * elem_size)
stack_shrink(s) ==
    [s EXCEPT !.buffer = realloc(@, s.elem_size * s.capacity, s.capacity * s.elem_size)]

\* a caller with one stack of uint8_t or of unsigned int
InitStack ==
    /\ stack \in {stack_init(es) : es \in ElemSizes}
    /\ status = "ok"
    /\ last = NoCall
    /\ bitset_a = NoBitset
    /\ bitset_b = NoBitset
    /\ hashmap = hashmap_init("uint_float")
    /\ hashmap2 = NoStore
    /\ tclhashmap_hash_func = "djb2"
    /\ hash_func_arg = "djb2"
    /\ main_key = 1
    /\ clean = Fresh
    /\ key_buffer = NoBuffer
    /\ array = NoArray
    /\ string_a = NoString
    /\ string_b = NoString

\* stack_push(stack, elem) with elem in E; last.calls lists the elements
\* pushed and not popped yet, bottom first
call_stack_push(E) ==
    /\ stack.length < StackMaxLen
    /\ \E e \in E :
        /\ stack' = stack_push(stack, LittleEndian(e, stack.elem_size))
        /\ last' = [NoCall EXCEPT !.op = "stack_push", !.value = e,
                                  !.prelen = stack.length, !.precap = stack.capacity,
                                  !.pre = stack,
                                  !.calls = Append(last.calls, e)]
    /\ UNCHANGED <<hashmap, tclhashmap_hash_func, main_key, status, clean,
                   hashmap2, array, key_buffer, hash_func_arg, string_a, string_b, bitset_a, bitset_b>>

\* x = stack_pop(stack) on a stack that is not empty; last.hash is x
call_stack_pop ==
    /\ stack.length >= 1
    /\ stack' = stack_pop(stack).s
    /\ last' = [NoCall EXCEPT !.op = "stack_pop", !.hash = stack_pop(stack).ret,
                              !.prelen = stack.length, !.precap = stack.capacity,
                              !.pre = stack,
                              !.repeat = (last.op = "stack_push"),
                              !.value = last.calls[Len(last.calls)],
                              !.calls = SubSeq(last.calls, 1, Len(last.calls) - 1)]
    /\ UNCHANGED <<hashmap, tclhashmap_hash_func, main_key, status, clean,
                   hashmap2, array, key_buffer, hash_func_arg, string_a, string_b, bitset_a, bitset_b>>

\* stack_shrink(stack)
call_stack_shrink ==
    /\ stack' = stack_shrink(stack)
    /\ last' = [NoCall EXCEPT !.op = "stack_shrink",
                              !.prelen = stack.length, !.precap = stack.capacity,
                              !.pre = stack,
                              !.calls = last.calls]
    /\ UNCHANGED <<hashmap, tclhashmap_hash_func, main_key, status, clean,
                   hashmap2, array, key_buffer, hash_func_arg, string_a, string_b, bitset_a, bitset_b>>

\* any sequence of pushes, pops and shrinks
NextStack ==
    \/ call_stack_push(Elems)
    \/ call_stack_pop
    \/ call_stack_shrink

SpecStack == InitStack /\ [][NextStack]_vars

-----------------------------------------------------------------------------
(* The strings of src/string.h.  `buffer` is the allocation, a function    *)
(* from 0 .. size - 1 to characters; `length` is the field of string_t.    *)
(* A read past the allocation returns whatever follows it on the heap:     *)
(* `heap` lists those bytes, and the caller of a function chooses them.    *)

\* the characters 'a' and 'b'
Chars == {97, 98}

\* the size of the allocation behind buffer
StringAlloc(string) == Cardinality(DOMAIN string.buffer)

\* string.buffer[i]
CharAt(string, i, heap) ==
    IF i < StringAlloc(string)
    THEN string.buffer[i]
    ELSE heap[(i - StringAlloc(string)) % Cardinality(DOMAIN heap)]

\* string_new(buffer, length): malloc(length), memcpy(.., buffer, length)
string_new(buffer, length) ==
    [buffer |-> [p \in 0..(length - 1) |-> buffer[p]], length |-> length]

\* the inner loop of string_find: for (index_b = 0; index_b < b.length;
\* index_b++) { if (a.buffer[index_a] != b.buffer[index_b]) break; index_a++; }
\* Its value is the index_b it ends with.
RECURSIVE string_find_inner(_, _, _, _, _)
string_find_inner(a, b, index_a, index_b, heap) ==
    IF index_b < b.length
    THEN (IF CharAt(a, index_a, heap) # b.buffer[index_b]
          THEN index_b
          ELSE string_find_inner(a, b, index_a + 1, index_b + 1, heap))
    ELSE index_b

\* for (size_t i = ...; i < a.length; i++) { ...; if (index_b == b.length) return i; }
RECURSIVE string_find_outer(_, _, _, _)
string_find_outer(a, b, i, heap) ==
    IF i < a.length
    THEN (IF string_find_inner(a, b, i, 0, heap) = b.length
          THEN i
          ELSE string_find_outer(a, b, i + 1, heap))
    ELSE NotFound

\* string_find(a, b)
string_find(a, b, heap) ==
    IF a.length < b.length THEN NotFound ELSE string_find_outer(a, b, 0, heap)

\* a size_t as its 8 bytes; SIZE_MAX; a - 1 modulo 2^64
SizeTOf(n) == LittleEndian(n, SizeofSizeT)
SizeTMax == [j \in 0..(SizeofSizeT - 1) |-> 255]
SizeTDec(a) == SizeTAdd(a, SizeTMax)

\* the size_t `a` used as an index or returned as an int64_t: its value
\* when that is below 2^16, and past every allocation otherwise
SizeTIndex(a) ==
    IF \A j \in 2..(SizeofSizeT - 1) : a[j] = 0 THEN a[0] + 256 * a[1] ELSE 65536

\* the inner loop of string_find_last_of: for (index_b = b.length - 1;
\* index_b <= 0; index_b--) { if (a.buffer[index_a] != b.buffer[index_b])
\* break; index_a--; }  index_a and index_b are size_t.
RECURSIVE string_find_last_of_inner(_, _, _, _, _)
string_find_last_of_inner(a, b, index_a, index_b, heap) ==
    IF index_b = SizeTOf(0)
    THEN (IF CharAt(a, SizeTIndex(index_a), heap) # CharAt(b, SizeTIndex(index_b), heap)
          THEN [index_a |-> index_a, index_b |-> index_b]
          ELSE string_find_last_of_inner(a, b, SizeTDec(index_a), SizeTDec(index_b), heap))
    ELSE [index_a |-> index_a, index_b |-> index_b]

\* for (size_t i = ...; i <= 0; i--) { ...; if (index_b == b.length) return index_a; }
RECURSIVE string_find_last_of_outer(_, _, _, _)
string_find_last_of_outer(a, b, i, heap) ==
    IF i = SizeTOf(0)
    THEN LET r == string_find_last_of_inner(a, b, i, SizeTDec(SizeTOf(b.length)), heap)
         IN IF r.index_b = SizeTOf(b.length)
            THEN SizeTIndex(r.index_a)
            ELSE string_find_last_of_outer(a, b, SizeTDec(i), heap)
    ELSE NotFound

\* string_find_last_of(a, b)
string_find_last_of(a, b, heap) ==
    IF a.length < b.length
    THEN NotFound
    ELSE string_find_last_of_outer(a, b, SizeTDec(SizeTOf(a.length)), heap)

\* string_erase(a, b) moves a->length - index - b.length bytes, a size_t:
\* when the match string_find returned ends past length, the count wraps
\* to nearly 2^64 and memmove runs off the heap
string_erase_wraps(a, b, heap) ==
    /\ string_find(a, b, heap) # NotFound
    /\ string_find(a, b, heap) + b.length > a.length

\* string_erase(a, b) when the count does not wrap
string_erase(a, b, heap) ==
    LET index == string_find(a, b, heap)
    IN IF index = NotFound
       THEN a
       ELSE [a EXCEPT !.buffer = memmove(@, StringAlloc(a), index, index + b.length,
                                         a.length - index - b.length),
                      !.length = @ - b.length]

\* the character arrays of 0 .. n characters
Buffers(n) == UNION {[0..(len - 1) -> Chars] : len \in 0..n}

\* the bytes that follow an allocation on the heap
Heaps == [0..1 -> Chars]

\* a caller with a = string_new(.., 0 .. StringMaxLen) and
\* b = string_new(.., 0 .. 2)
InitString ==
    /\ string_a \in {string_new(buf, Cardinality(DOMAIN buf)) : buf \in Buffers(StringMaxLen)}
    /\ string_b \in {string_new(buf, Cardinality(DOMAIN buf)) : buf \in Buffers(2)}
    /\ status = "ok"
    /\ last = NoCall
    /\ bitset_a = NoBitset
    /\ bitset_b = NoBitset
    /\ hashmap = hashmap_init("uint_float")
    /\ hashmap2 = NoStore
    /\ tclhashmap_hash_func = "djb2"
    /\ hash_func_arg = "djb2"
    /\ main_key = 1
    /\ clean = Fresh
    /\ key_buffer = NoBuffer
    /\ array = NoArray
    /\ stack = NoStack

\* string_find(a, b); last.ret is the result
call_string_find ==
    /\ status = "ok"
    /\ \E heap \in Heaps :
        last' = [NoCall EXCEPT !.op = "string_find",
                              !.ret = string_find(string_a, string_b, heap),
                              !.pre = string_a]
    /\ UNCHANGED <<hashmap, tclhashmap_hash_func, main_key, status, clean, hashmap2,
                   array, key_buffer, hash_func_arg, stack, string_a, string_b, bitset_a, bitset_b>>

\* string_find_last_of(a, b); last.ret is the result
call_string_find_last_of ==
    /\ status = "ok"
    /\ \E heap \in Heaps :
        last' = [NoCall EXCEPT !.op = "string_find_last_of",
                              !.ret = string_find_last_of(string_a, string_b, heap),
                              !.pre = string_a]
    /\ UNCHANGED <<hashmap, tclhashmap_hash_func, main_key, status, clean, hashmap2,
                   array, key_buffer, hash_func_arg, stack, string_a, string_b, bitset_a, bitset_b>>

\* string_erase(&a, b)
call_string_erase ==
    /\ status = "ok"
    /\ \E heap \in Heaps :
        /\ last' = [NoCall EXCEPT !.op = "string_erase",
                                  !.ret = string_find(string_a, string_b, heap),
                                  !.pre = string_a]
        /\ IF string_erase_wraps(string_a, string_b, heap)
           THEN string_a' = string_a /\ status' = "crashed"
           ELSE string_a' = string_erase(string_a, string_b, heap) /\ status' = "ok"
    /\ UNCHANGED <<hashmap, tclhashmap_hash_func, main_key, clean, hashmap2,
                   array, key_buffer, hash_func_arg, stack, string_b, bitset_a, bitset_b>>

\* any sequence of searches and erasures
NextString ==
    \/ call_string_find
    \/ call_string_find_last_of
    \/ call_string_erase

SpecString == InitString /\ [][NextString]_vars

-----------------------------------------------------------------------------
(* Building strings.  A write past the allocation is undefined behaviour:  *)
(* the bytes do not land in the buffer, and the call either returns or the *)
(* process ends.  last.moved counts the bytes the call wrote past the      *)
(* allocation.                                                             *)

\* string_new_from_cstr(str), str given without its terminating '\0':
\* length = strlen(str), buffer = malloc(sizeof(char)), strcpy(buffer, str)
string_new_from_cstr(str) ==
    LET len == Cardinality(DOMAIN str)
    IN [buffer |-> [p \in 0..0 |-> IF len = 0 THEN 0 ELSE str[0]], length |-> len]

\* strcpy writes strlen(str) + 1 bytes into the one byte allocated
string_new_from_cstr_overflow(str) == Cardinality(DOMAIN str) + 1 - 1

\* string_duplicate(string): string_new(string.buffer, string.length)
string_duplicate(string, heap) ==
    string_new([p \in 0..(string.length - 1) |-> CharAt(string, p, heap)], string.length)

\* string_append(a, b): realloc(a->buffer, a->length + b.length),
\* memcpy(a->buffer + a->length, b.buffer, b.length), a->length += b.length
string_append(a, b) ==
    [buffer |-> memcpy(realloc(a.buffer, StringAlloc(a), a.length + b.length),
                       a.length, b.buffer, b.length),
     length |-> a.length + b.length]

\* string_append_char(a, c): realloc(a->buffer, a->length),
\* a->buffer[a->length] = c, a->length++; the byte at index length is one
\* past the new allocation
string_append_char(a, c) ==
    [buffer |-> realloc(a.buffer, StringAlloc(a), a.length),
     length |-> a.length + 1]

\* the write at index a->length into an allocation of a->length bytes
string_append_char_overflow(a) == a.length + 1 - a.length

\* a caller that starts from a = string_new("", 0) and a b of 0 .. 2
\* characters
InitStringBuild ==
    /\ string_a = string_new(<<>>, 0)
    /\ string_b \in {string_new(buf, Cardinality(DOMAIN buf)) : buf \in Buffers(2)}
    /\ status = "ok"
    /\ last = NoCall
    /\ bitset_a = NoBitset
    /\ bitset_b = NoBitset
    /\ hashmap = hashmap_init("uint_float")
    /\ hashmap2 = NoStore
    /\ tclhashmap_hash_func = "djb2"
    /\ hash_func_arg = "djb2"
    /\ main_key = 1
    /\ clean = Fresh
    /\ key_buffer = NoBuffer
    /\ array = NoArray
    /\ stack = NoStack

\* a = string_new(buffer, length)
call_string_new ==
    /\ status = "ok"
    /\ \E buf \in Buffers(BuildMaxLen) :
        /\ string_a' = string_new(buf, Cardinality(DOMAIN buf))
        /\ last' = [NoCall EXCEPT !.op = "string_new", !.pre = string_a]
    /\ UNCHANGED <<hashmap, tclhashmap_hash_func, main_key, status, clean, hashmap2,
                   array, key_buffer, hash_func_arg, stack, string_b, bitset_a, bitset_b>>

\* a = string_new_from_cstr(str)
call_string_new_from_cstr ==
    /\ status = "ok"
    /\ \E str \in Buffers(BuildMaxLen) :
        /\ last' = [NoCall EXCEPT !.op = "string_new_from_cstr", !.pre = string_a,
                                  !.moved = string_new_from_cstr_overflow(str)]
        /\ \/ string_a' = string_new_from_cstr(str) /\ status' = "ok"
           \/ /\ string_new_from_cstr_overflow(str) > 0
              /\ string_a' = string_a
              /\ status' = "crashed"
    /\ UNCHANGED <<hashmap, tclhashmap_hash_func, main_key, clean, hashmap2,
                   array, key_buffer, hash_func_arg, stack, string_b, bitset_a, bitset_b>>

\* a = string_duplicate(a)
call_string_duplicate ==
    /\ status = "ok"
    /\ \E heap \in Heaps :
        /\ string_a' = string_duplicate(string_a, heap)
        /\ last' = [NoCall EXCEPT !.op = "string_duplicate", !.pre = string_a]
    /\ UNCHANGED <<hashmap, tclhashmap_hash_func, main_key, status, clean, hashmap2,
                   array, key_buffer, hash_func_arg, stack, string_b, bitset_a, bitset_b>>

\* string_append(&a, b)
call_string_append ==
    /\ status = "ok"
    /\ string_a.length + string_b.length <= BuildMaxLen
    /\ string_a' = string_append(string_a, string_b)
    /\ last' = [NoCall EXCEPT !.op = "string_append", !.pre = string_a]
    /\ UNCHANGED <<hashmap, tclhashmap_hash_func, main_key, status, clean, hashmap2,
                   array, key_buffer, hash_func_arg, stack, string_b, bitset_a, bitset_b>>

\* string_append_char(&a, c) with c in C
call_string_append_char(C) ==
    /\ status = "ok"
    /\ string_a.length + 1 <= BuildMaxLen
    /\ \E c \in C :
        /\ last' = [NoCall EXCEPT !.op = "string_append_char", !.pre = string_a,
                                  !.value = c,
                                  !.moved = string_append_char_overflow(string_a)]
        /\ \/ string_a' = string_append_char(string_a, c) /\ status' = "ok"
           \/ /\ string_append_char_overflow(string_a) > 0
              /\ string_a' = string_a
              /\ status' = "crashed"
    /\ UNCHANGED <<hashmap, tclhashmap_hash_func, main_key, clean, hashmap2,
                   array, key_buffer, hash_func_arg, stack, string_b, bitset_a, bitset_b>>

\* any sequence of constructions, appends and erasures
NextStringBuild ==
    \/ call_string_new
    \/ call_string_new_from_cstr
    \/ call_string_duplicate
    \/ call_string_append
    \/ call_string_append_char(Chars)
    \/ call_string_erase

SpecStringBuild == InitStringBuild /\ [][NextStringBuild]_vars

-----------------------------------------------------------------------------
(* The bitsets of src/bitset.h.  `bits` is the allocation, a function from *)
(* 0 .. num_uint8 - 1 to bytes.  malloc does not initialise it: its bytes  *)
(* are whatever the heap held, chosen by the caller of bitset_new.         *)

\* TCL_CEILING(x, y)
TCL_CEILING(x, y) == (x + y - 1) \div y

\* TCL_MAX(x, y), as it expands in `size_t max = TCL_MAX(..)`
TCL_MAX(x, y) == IF x > y THEN x ELSE y

\* bitset_new(num_bits); sizeof(uint8_t) is 1
bitset_new(num_bits, mem) ==
    [bits |-> [i \in 0..(TCL_CEILING(num_bits, 1) - 1) |-> mem[i]],
     num_uint8 |-> TCL_CEILING(num_bits, 1),
     num_bits |-> num_bits]

\* x op y on the low n bits, op being "and", "or" or "xor"
RECURSIVE BitOp(_, _, _, _)
BitOp(op, x, y, n) ==
    IF n = 0
    THEN 0
    ELSE (CASE op = "and" -> (IF x % 2 = 1 /\ y % 2 = 1 THEN 1 ELSE 0)
            [] op = "or" -> (IF x % 2 = 1 \/ y % 2 = 1 THEN 1 ELSE 0)
            [] op = "xor" -> (IF x % 2 # y % 2 THEN 1 ELSE 0))
         + 2 * BitOp(op, x \div 2, y \div 2, n - 1)

\* bitset.bits[i]: past the allocation, a byte of the heap
BitsAt(bitset, i, heap) ==
    IF i < bitset.num_uint8
    THEN bitset.bits[i]
    ELSE heap[(i - bitset.num_uint8) % Cardinality(DOMAIN heap)]

\* the loop of bitset_and, bitset_or and bitset_xor:
\* size_t max = TCL_MAX(a.num_uint8, b.num_uint8);
\* for (i = 0; i < max; i++) a.bits[i] op= b.bits[i];
\* the bytes written at i >= a.num_uint8 do not land in a.bits
bitset_op(op, a, b, heap) ==
    LET max == TCL_MAX(a.num_uint8, b.num_uint8)
    IN [a EXCEPT !.bits = [i \in DOMAIN a.bits |->
                              IF i < max
                              THEN BitOp(op, a.bits[i], BitsAt(b, i, heap), 8)
                              ELSE a.bits[i]]]

\* the indices i >= bitset.num_uint8 the loop run to max touches
bitset_op_past(a, b, bitset) ==
    {i \in 0..(TCL_MAX(a.num_uint8, b.num_uint8) - 1) : i >= bitset.num_uint8}

\* the bytes malloc may hand out, and the bytes that may follow an
\* allocation: 00000000, 00001010, 00001100, 11111111
HeapBytes == {0, 10, 12, 255}

\* a caller with a = bitset_new(1 .. BitsetMaxBits) and
\* b = bitset_new(1 .. BitsetMaxBits)
InitBitset ==
    /\ bitset_a \in UNION {{bitset_new(n, mem) : mem \in [0..(n - 1) -> HeapBytes]} :
                             n \in 1..BitsetMaxBits}
    /\ bitset_b \in UNION {{bitset_new(n, mem) : mem \in [0..(n - 1) -> HeapBytes]} :
                             n \in 1..BitsetMaxBits}
    /\ status = "ok"
    /\ last = NoCall
    /\ hashmap = hashmap_init("uint_float")
    /\ hashmap2 = NoStore
    /\ tclhashmap_hash_func = "djb2"
    /\ hash_func_arg = "djb2"
    /\ main_key = 1
    /\ clean = Fresh
    /\ key_buffer = NoBuffer
    /\ array = NoArray
    /\ stack = NoStack
    /\ string_a = NoString
    /\ string_b = NoString

\* bitset_and(a, b), bitset_or(a, b) or bitset_xor(a, b), by op.  last.pre
\* is a before the call, last.moved the number of indices >= a.num_uint8
\* read and written, last.calls the number of indices >= b.num_uint8 read.  A write
\* past the allocation is undefined: the call returns or the process ends.
call_bitset_op(op) ==
    /\ status = "ok"
    /\ last.op = "init"
    /\ \E heap \in [0..0 -> HeapBytes] :
        /\ last' = [NoCall EXCEPT !.op = op, !.pre = bitset_a,
                                  !.moved = Cardinality(bitset_op_past(bitset_a, bitset_b,
                                                                       bitset_a)),
                                  !.calls = Cardinality(bitset_op_past(bitset_a, bitset_b,
                                                                       bitset_b))]
        /\ \/ bitset_a' = bitset_op(op, bitset_a, bitset_b, heap) /\ status' = "ok"
           \/ /\ bitset_op_past(bitset_a, bitset_b, bitset_a) # {}
              /\ bitset_a' = bitset_a
              /\ status' = "crashed"
    /\ UNCHANGED <<hashmap, tclhashmap_hash_func, main_key, clean, hashmap2,
                   array, key_buffer, hash_func_arg, stack, string_a, string_b, bitset_b>>

\* bitset_and(a, b)
call_bitset_and == call_bitset_op("and")

\* bitset_or(a, b)
call_bitset_or == call_bitset_op("or")

\* bitset_xor(a, b)
call_bitset_xor == call_bitset_op("xor")

\* one call of bitset_and, bitset_or or bitset_xor
NextBitset ==
    \/ call_bitset_and
    \/ call_bitset_or
    \/ call_bitset_xor

SpecBitset == InitBitset /\ [][NextBitset]_vars

-----------------------------------------------------------------------------
(* The default hash function called on its own.                            *)

\* byte values of the buffers hashed: below and from 128 on
Djb2Bytes == {0, 1, 65, 127, 128, 200, 255}

\* a caller holding a buffer of 0 .. Djb2MaxSize bytes
InitDjb2 ==
    /\ key_buffer \in UNION {[0..(size - 1) -> Djb2Bytes] : size \in 0..Djb2MaxSize}
    /\ hashmap = hashmap_init("uint_float")
    /\ hashmap2 = NoStore
    /\ tclhashmap_hash_func = "djb2"
    /\ hash_func_arg = "djb2"
    /\ main_key = 1
    /\ status = "ok"
    /\ last = NoCall
    /\ bitset_a = NoBitset
    /\ bitset_b = NoBitset
    /\ stack = NoStack
    /\ string_a = NoString
    /\ string_b = NoString
    /\ clean = Fresh
    /\ array = NoArray

\* hashmap_get_hash_func()(buffer, size) before any hashmap_set_hash_func:
\* a call of tclhashmap_hash_djb2
call_hash_djb2 ==
    /\ last.op = "init"
    /\ last' = [NoCall EXCEPT !.op = "djb2",
                              !.hash = tclhashmap_hash_djb2(key_buffer,
                                                            Cardinality(DOMAIN key_buffer))]
    /\ UNCHANGED <<hashmap, tclhashmap_hash_func, main_key, status, clean,
                   hashmap2, array, key_buffer, stack, string_a, string_b, bitset_a, bitset_b, hash_func_arg>>

NextDjb2 == call_hash_djb2

SpecDjb2 == InitDjb2 /\ [][NextDjb2]_vars

-----------------------------------------------------------------------------
(* What a caller observes.                                                 *)

\* the hash of key k under the current hash function
HashOfKey(m, k) == CallHashFunc(tclhashmap_hash_func, KeyBytes(m, k), m.key_size)

\* *hashmap_get(m, k): the value bytes behind the returned pointer, or no
\* bytes at all when hashmap_get returns NULL
GetValue(m, k) ==
    LET ret == tclhashmap_get(m, tclhashmap_hash_func, KeyBytes(m, k))
    IN IF ret = NULL THEN <<>> ELSE ReadBytes(m.pairs, ret, m.value_size)

\* some record at an index < length has a stored hash equal to the hash of k
SomeRecordHasHash(m, k) ==
    \E i \in 0..(m.length - 1) : StoredHash(m, i) = HashOfKey(m, k)

\* the byte offsets of the value field of the pair at index i
ValueField(m, i) ==
    {TCLHASHMAP_GET_VALUE(m, TCLHASHMAP_GET_PAIR(m, i)) + j : j \in 0..(m.value_size - 1)}

-----------------------------------------------------------------------------
(* C1.  Update-in-place: after hashmap_set(m,k,v1) followed by             *)
(* hashmap_set(m,k,v2), hashmap_get(m,k) is non-NULL and points to v2, and *)
(* length is the same before and after the second set.                     *)

C1_UpdateInPlace ==
    (last.op = "set" /\ last.repeat) =>
        /\ GetValue(hashmap, last.key) = ValueBytes(hashmap, last.value)
        /\ hashmap.length = last.prelen

(* C2.  Insert-then-get: immediately after hashmap_set(m,k,v), whether k   *)
(* was absent or present before, hashmap_get(m,k) is non-NULL and points   *)
(* to a value equal to v.                                                  *)

C2_InsertThenGet ==
    last.op = "set" =>
        /\ tclhashmap_get(hashmap, tclhashmap_hash_func, KeyBytes(hashmap, last.key)) # NULL
        /\ GetValue(hashmap, last.key) = ValueBytes(hashmap, last.value)

(* C3.  A hashmap_set that finds a record with the key's hash changes only *)
(* that record's value bytes: every other byte of the buffer (that         *)
(* record's key and hash, every other record), length and capacity are     *)
(* unchanged.                                                              *)

C3_UpdateFrame ==
    [][(last'.op = "set" /\ last'.found) =>
        /\ hashmap'.length = hashmap.length
        /\ hashmap'.capacity = hashmap.capacity
        /\ \A p \in DOMAIN hashmap.pairs :
              p \notin ValueField(hashmap, last'.idx) => hashmap'.pairs[p] = hashmap.pairs[p]]_vars

(* C4.  Erase removes exactly one: after hashmap_erase(m,k) of a key the   *)
(* store contains, hashmap_exists(m,k) is false, hashmap_get(m,k) is NULL  *)
(* and length is one less than before.                                     *)

C4_EraseRemovesOne ==
    (last.op = "erase" /\ last.found) =>
        /\ status = "ok"
        /\ ~tclhashmap_exists(hashmap, tclhashmap_hash_func, KeyBytes(hashmap, last.key))
        /\ tclhashmap_get(hashmap, tclhashmap_hash_func, KeyBytes(hashmap, last.key)) = NULL
        /\ hashmap.length = last.prelen - 1

(* C5.  Erase of an absent key is a no-op: when no live record's stored    *)
(* hash equals the hash of k, hashmap_erase(m,k) leaves length, capacity   *)
(* and every byte of the buffer unchanged (and returns).                   *)

C5_EraseAbsentNoOp ==
    [][(last'.op = "erase" /\ ~SomeRecordHasHash(hashmap, last'.key)) =>
        /\ hashmap' = hashmap
        /\ status' = "ok"]_vars

C5_Witness ==
    /\ last.op = "erase"
    /\ ~last.found
    /\ hashmap.length = last.prelen
    /\ hashmap.length >= 1

(* C6.  hashmap_erase of the record at index i moves exactly the bytes of  *)
(* the records that follow it, pair_size * (length - i - 1), and so reads  *)
(* and writes only bytes inside the capacity * pair_size buffer.           *)

C6_EraseMovesTail ==
    (last.op = "erase" /\ last.found) =>
        /\ last.moved = hashmap.pair_size * (last.prelen - last.idx - 1)
        /\ hashmap.pair_size * (last.idx + 1) + last.moved <= hashmap.pair_size * last.precap

(* C7.  Erase compacts densely: after hashmap_erase removes the record at  *)
(* index i, every record formerly at j > i is at j - 1 with the same       *)
(* bytes, the records below i are unchanged, and every other key yields    *)
(* from get what it yielded before.                                        *)

C7_EraseCompacts ==
    [][(last'.op = "erase" /\ last'.found) =>
        /\ status' = "ok"
        /\ \A j \in 0..(hashmap.length - 1) :
              /\ j < last'.idx => StoredPair(hashmap', j) = StoredPair(hashmap, j)
              /\ j > last'.idx => StoredPair(hashmap', j - 1) = StoredPair(hashmap, j)
        /\ \A k \in GrowProbeKeys :
              k # last'.key => GetValue(hashmap', k) = GetValue(hashmap, k)]_vars

(* C8.  hashmap_iterate calls the callback once per live record, with      *)
(* pointers to that record's key and value, in storage order; when only    *)
(* appending sets were made (nothing erased, nothing updated) the callback *)
(* sees exactly the (key, value) pairs set, in the order they were set.    *)

C8_IterateInOrder ==
    last.op = "iterate" =>
        /\ Len(last.calls) = hashmap.length
        /\ \A n \in 1..Len(last.calls) :
              /\ last.calls[n].key = hashmap.pair_size * (n - 1) + hashmap.key_offset
              /\ last.calls[n].value = hashmap.pair_size * (n - 1) + hashmap.value_offset
        /\ clean.ok =>
              /\ Len(last.calls) = Len(clean.ins)
              /\ \A n \in 1..Len(last.calls) :
                    /\ ReadBytes(hashmap.pairs, last.calls[n].key, hashmap.key_size)
                           = KeyBytes(hashmap, clean.ins[n][1])
                    /\ ReadBytes(hashmap.pairs, last.calls[n].value, hashmap.value_size)
                           = ValueBytes(hashmap, clean.ins[n][2])

C8_Witness ==
    /\ last.op = "iterate"
    /\ clean.ok
    /\ Len(last.calls) = 3
    /\ clean.ins = <<<<1, 1>>, <<2, 2>>, <<3, 3>>>>

(* C9.  Growth preserves all entries: a hashmap_set of a key not yet       *)
(* present, also one that finds length = capacity and reallocates, leaves  *)
(* every byte of every existing record unchanged, stores the new key,      *)
(* value and hash at index length and increases length by one; so after    *)
(* 6 or more keys were set in a store created with capacity 5, get         *)
(* returns the value set for every one of them.                            *)

C9_GrowthPreserves ==
    [][(last'.op = "set" /\ ~last'.found) =>
        /\ hashmap'.length = hashmap.length + 1
        /\ hashmap'.capacity >= hashmap'.length
        /\ \A j \in 0..(hashmap.length - 1) : StoredPair(hashmap', j) = StoredPair(hashmap, j)
        /\ StoredKey(hashmap', hashmap.length) = KeyBytes(hashmap, last'.key)
        /\ StoredValue(hashmap', hashmap.length) = ValueBytes(hashmap, last'.value)
        /\ StoredHash(hashmap', hashmap.length) = HashOfKey(hashmap, last'.key)
        /\ clean'.ok =>
              \A n \in 1..Len(clean'.ins) :
                  GetValue(hashmap', clean'.ins[n][1]) = ValueBytes(hashmap, clean'.ins[n][2])]_vars

C9_Witness ==
    /\ last.op = "set"
    /\ ~last.found
    /\ last.prelen = 5
    /\ last.precap = 5
    /\ hashmap.length = 6
    /\ hashmap.capacity > 5
    /\ clean.ok
    /\ Len(clean.ins) = 6

(* C10.  In every state and for every key k, hashmap_exists(m,k) is true   *)
(* iff hashmap_get(m,k) is non-NULL iff some record at an index < length   *)
(* has a stored hash equal to the hash of k; for a key that was never set  *)
(* get returns NULL and exists returns false.  The results the calls       *)
(* returned agree with this.                                               *)

C10_ExistsIffGet ==
    /\ \A k \in ProbeKeys :
          LET e == tclhashmap_exists(hashmap, tclhashmap_hash_func, KeyBytes(hashmap, k))
              g == tclhashmap_get(hashmap, tclhashmap_hash_func, KeyBytes(hashmap, k))
          IN /\ e <=> (g # NULL)
             /\ e <=> SomeRecordHasHash(hashmap, k)
             /\ k = MaxKey + 1 => (~e /\ g = NULL)
    /\ last.op = "exists" => (last.found <=> SomeRecordHasHash(hashmap, last.key))
    /\ last.op = "get" => ((last.ret # NULL) <=> SomeRecordHasHash(hashmap, last.key))

C10_Witness ==
    /\ last.op = "exists"
    /\ last.found
    /\ hashmap.length = 2
    /\ tclhashmap_get(hashmap, tclhashmap_hash_func, KeyBytes(hashmap, last.key)) # NULL
    /\ ~tclhashmap_exists(hashmap, tclhashmap_hash_func, KeyBytes(hashmap, MaxKey + 1))

(* C11.  Hash equality is the sole identity test: for two keys k1 # k2     *)
(* with hash(k1) = hash(k2), after hashmap_set(m,k1,v1) the call           *)
(* hashmap_exists(m,k2) is true, hashmap_set(m,k2,v2) does not change      *)
(* length and leaves the stored key bytes equal to k1 (when the set        *)
(* inserted k1), and hashmap_erase(m,k2) is a defined call that removes    *)
(* the record of k1.                                                       *)

C11_HashIdentity ==
    last.op = "set" =>
        \A k2 \in HashKeys :
            (k2 # last.key /\ HashOfKey(hashmap, k2) = last.hash) =>
                LET kb2 == KeyBytes(hashmap, k2)
                    i == HashScan(hashmap, last.hash, 0)
                    erased == tclhashmap_erase(hashmap, tclhashmap_hash_func, kb2)
                IN /\ tclhashmap_exists(hashmap, tclhashmap_hash_func, kb2)
                   /\ i # NotFound
                   /\ \A v2 \in Values :
                         LET m2 == tclhashmap_set(hashmap, tclhashmap_hash_func, kb2,
                                                  ValueBytes(hashmap, v2))
                         IN /\ m2.length = hashmap.length
                            /\ StoredKey(m2, i) = StoredKey(hashmap, i)
                            /\ ~last.found => StoredKey(m2, i) = KeyBytes(hashmap, last.key)
                   /\ ~erase_overruns(hashmap, i)
                   /\ erased.length = hashmap.length - 1
                   /\ \A j \in 0..(erased.length - 1) :
                         /\ j < i => StoredPair(erased, j) = StoredPair(hashmap, j)
                         /\ j >= i => StoredPair(erased, j) = StoredPair(hashmap, j + 1)

(* C12.  hashmap_get returns access to the live slot, not a copy: writing  *)
(* a value v' through the pointer returned by hashmap_get(m,k) changes     *)
(* only the value bytes of the record found (no key, no stored hash, no    *)
(* other record's value, not length or capacity), and until the next      *)
(* erase or updating set (sets that insert other keys may come between)    *)
(* every hashmap_get(m,k) returns the pointer to the same slot, behind     *)
(* which v' is read, and hashmap_iterate passes that pointer to the        *)
(* callback.                                                               *)

C12_WriteThroughGet ==
    /\ last.op = "write" =>
          /\ hashmap.length = last.prelen
          /\ hashmap.capacity = last.precap
          /\ \A p \in DOMAIN hashmap.pairs :
                p \notin ValueField(hashmap, last.idx) => hashmap.pairs[p] = last.pre[p]
          /\ StoredValue(hashmap, last.idx) = ValueBytes(hashmap, last.value)
    /\ (clean.wr # <<>> /\ status = "ok" /\ tclhashmap_hash_func = clean.wr[3]) =>
          /\ tclhashmap_get(hashmap, tclhashmap_hash_func, KeyBytes(hashmap, clean.wr[1]))
                 = clean.wr[4]
          /\ GetValue(hashmap, clean.wr[1]) = ValueBytes(hashmap, clean.wr[2])
          /\ \E n \in 1..Len(tclhashmap_iterate(hashmap)) :
                /\ tclhashmap_iterate(hashmap)[n].value = clean.wr[4]
                /\ ReadBytes(hashmap.pairs, tclhashmap_iterate(hashmap)[n].value,
                             hashmap.value_size) = ValueBytes(hashmap, clean.wr[2])
          /\ (last.op = "get" /\ last.key = clean.wr[1]) => last.ret = clean.wr[4]
          /\ last.op = "iterate" => \E n \in 1..Len(last.calls) :
                                        last.calls[n].value = clean.wr[4]

C12_Witness ==
    /\ last.op = "get"
    /\ clean.wr # <<>>
    /\ last.key = clean.wr[1]
    /\ last.ret = clean.wr[4]
    /\ clean.wr[2] # clean.wr[1]
    /\ hashmap.length >= 2
    /\ last.idx = 1
    /\ GetValue(hashmap, last.key) = ValueBytes(hashmap, clean.wr[2])

(* C13.  length <= capacity holds in every state reachable from            *)
(* hashmap_init by any sequence of hashmap_set, hashmap_erase,             *)
(* hashmap_get, hashmap_exists and hashmap_iterate (and the buffer holds   *)
(* capacity records).                                                      *)

C13_LengthWithinCapacity ==
    /\ 0 <= hashmap.length
    /\ hashmap.length <= hashmap.capacity
    /\ DOMAIN hashmap.pairs = 0..(hashmap.pair_size * hashmap.capacity - 1)

C13_Witness ==
    /\ last.op = "set"
    /\ last.prelen = 5
    /\ last.precap = 5
    /\ hashmap.length = 6
    /\ hashmap.capacity = 7

(* C14.  Under a fixed hash function, in every state reachable from        *)
(* hashmap_init by sets (inserting and updating), erases, gets, exists     *)
(* and iterates, no two records at indices < length have equal stored      *)
(* hash values.                                                            *)

C14_DistinctHashes ==
    \A i, j \in 0..(hashmap.length - 1) :
        i # j => StoredHash(hashmap, i) # StoredHash(hashmap, j)

(* C15.  The hash function registry is one process-wide value: initially   *)
(* it is djb2; after hashmap_set_hash_func(f), hashmap_get_hash_func()     *)
(* returns f and every later set, get, exists and erase, on either store,  *)
(* hashes its key with f; after hashmap_set_hash_func_default(),           *)
(* hashmap_get_hash_func() returns djb2 again.                             *)

C15_OneRegistry ==
    /\ tclhashmap_hash_func = hash_func_arg
    /\ last.op = "init" => tclhashmap_get_hash_func(tclhashmap_hash_func) = "djb2"
    /\ last.op = "set_hash_func" =>
          tclhashmap_get_hash_func(tclhashmap_hash_func) = last.func
    /\ last.op = "set_hash_func_default" =>
          tclhashmap_get_hash_func(tclhashmap_hash_func) = "djb2"
    /\ last.op = "get_hash_func" => last.func = hash_func_arg
    /\ last.op \in {"set", "get", "exists", "erase"} =>
          /\ last.func = hash_func_arg
          /\ last.hash = CallHashFunc(hash_func_arg, KeyBytes(hashmap, last.key),
                                      hashmap.key_size)

\* a get on the second store finds a key under the registered function,
\* under which the first store got its record as well
C15_Witness ==
    /\ hashmap2.id = 1
    /\ hash_func_arg = "high_bits"
    /\ last.op = "get"
    /\ last.found
    /\ last.hash = hash_high_bits(KeyBytes(hashmap, last.key), hashmap.key_size)
    /\ hashmap2.m.length >= 1
    /\ StoredHash(hashmap2.m, 0)
           = hash_high_bits(StoredKey(hashmap2.m, 0), hashmap2.m.key_size)

(* C16.  Swapping the hash function affects only subsequent hashing:       *)
(* hashmap_set_hash_func and hashmap_set_hash_func_default (and            *)
(* hashmap_get_hash_func) leave every store's length, capacity and stored  *)
(* key, value and hash bytes unchanged; so the entries inserted while      *)
(* function A was current are returned by hashmap_get whenever A is        *)
(* current, whatever get and exists calls were made under another          *)
(* function B in between.                                                  *)

C16_SwapFrame ==
    /\ [][last'.op \in {"set_hash_func", "set_hash_func_default", "get_hash_func"} =>
             (hashmap' = hashmap /\ hashmap2' = hashmap2)]_vars
    /\ [](/\ (clean.ok /\ tclhashmap_hash_func = clean.func) =>
                \A n \in 1..Len(clean.ins) :
                    GetValue(hashmap, clean.ins[n][1]) = ValueBytes(hashmap, clean.ins[n][2])
          /\ (hashmap2.clean.ok /\ tclhashmap_hash_func = hashmap2.clean.func) =>
                \A n \in 1..Len(hashmap2.clean.ins) :
                    GetValue(hashmap2.m, hashmap2.clean.ins[n][1])
                        = ValueBytes(hashmap2.m, hashmap2.clean.ins[n][2])
          /\ (last.op = "get" /\ clean.ok /\ last.func = clean.func
                 /\ \E n \in 1..Len(clean.ins) : clean.ins[n][1] = last.key) =>
                /\ last.ret # NULL
                /\ ReadBytes(hashmap.pairs, last.ret, hashmap.value_size)
                       = ValueBytes(hashmap, last.key))

\* key 2 was inserted under high_bits, a get or exists ran under djb2, and
\* with high_bits current again get finds it
C16_Witness ==
    /\ clean.ok
    /\ clean.away
    /\ clean.func = "high_bits"
    /\ tclhashmap_hash_func = "high_bits"
    /\ last.op = "get"
    /\ last.key = 2
    /\ last.found
    /\ clean.ins = <<<<1, 1>>, <<2, 2>>>>

(* C17.  The default hash function computes classic djb2: for a buffer of  *)
(* n bytes b_0 .. b_(n-1) it returns h_n where h_0 = 5381 and              *)
(* h_(i+1) = (h_i * 33 + b_i) mod 2^64, each b_i being the value in        *)
(* 0..255 of the buffer element, also for bytes >= 128; for n = 0 it       *)
(* returns 5381.                                                           *)

C17_ClassicDjb2 ==
    last.op = "djb2" =>
        LET n == Cardinality(DOMAIN key_buffer)
            b(i) == [j \in 0..(SizeofSizeT - 1) |-> IF j = 0 THEN key_buffer[i] ELSE 0]
            h[i \in 0..n] ==
                IF i = 0
                THEN LittleEndian(5381, SizeofSizeT)
                ELSE SizeTAdd(SizeTAdd(SizeTShl5(h[i - 1]), h[i - 1]), b(i - 1))
        IN last.hash = h[n]

(* C18.  A store just created by hashmap_init has length 0 and capacity    *)
(* 5; for every key, hashmap_exists returns false and hashmap_get returns  *)
(* NULL, hashmap_iterate invokes the callback zero times, and              *)
(* hashmap_erase of any key leaves it empty.                               *)

C18_InitEmpty ==
    (clean.ok /\ clean.ins = <<>>) =>
        /\ hashmap.length = 0
        /\ hashmap.capacity = 5
        /\ hashmap \in {hashmap_init(t) : t \in Types}
        /\ status = "ok"
        /\ \A k \in ProbeKeys :
              /\ ~tclhashmap_exists(hashmap, tclhashmap_hash_func, KeyBytes(hashmap, k))
              /\ tclhashmap_get(hashmap, tclhashmap_hash_func, KeyBytes(hashmap, k)) = NULL
              /\ tclhashmap_erase(hashmap, tclhashmap_hash_func, KeyBytes(hashmap, k)) = hashmap
        /\ tclhashmap_iterate(hashmap) = <<>>
        /\ last.op = "exists" => ~last.found
        /\ last.op = "get" => last.ret = NULL
        /\ last.op = "iterate" => last.calls = <<>>
        /\ last.op = "erase" => (~last.found /\ last.prelen = 0)

C18_Witness ==
    /\ clean = Fresh
    /\ last.op = "erase"
    /\ last.key = 1
    /\ hashmap.length = 0
    /\ hashmap.capacity = 5

(* C19.  For every array and every index with 0 <= index < length,         *)
(* array_remove_index(array, index) (also when reached through array_pop   *)
(* on an array of length 1, or through array_remove when the element is    *)
(* found at index 0) completes without an assertion failure, removes       *)
(* exactly the element at index, moves each later element down by one      *)
(* preserving order, and decrements length by one.                         *)

C19_RemoveIndex ==
    (last.op \in {"array_remove_index", "array_pop", "array_remove"} /\ last.found) =>
        /\ status = "ok"
        /\ array.length = last.prelen - 1
        /\ \A j \in 0..(array.length - 1) :
              /\ j < last.idx => array_elem(array, j) = array_elem(last.pre, j)
              /\ j >= last.idx => array_elem(array, j) = array_elem(last.pre, j + 1)

(* C20.  For every array of any element size and every index with          *)
(* 0 <= index < length, array_insert(array, elem, index) leaves elements   *)
(* [0, index) unchanged, stores elem at index, moves each former element   *)
(* at j in [index, length) intact to j + 1, increments length by one and   *)
(* keeps length <= capacity.                                               *)

C20_Insert ==
    last.op = "array_insert" =>
        /\ status = "ok"
        /\ array.length = last.prelen + 1
        /\ array.length <= array.capacity
        /\ array_elem(array, last.idx) = ElemBytes(array, last.value)
        /\ \A j \in 0..(last.prelen - 1) :
              /\ j < last.idx => array_elem(array, j) = array_elem(last.pre, j)
              /\ j >= last.idx => array_elem(array, j + 1) = array_elem(last.pre, j)

(* C21.  The stack is LIFO.  In every state the stack holds, bottom first, *)
(* exactly the elements pushed and not popped yet, and length <= capacity; *)
(* each stack_pop returns the most recent of them; and a stack_push(s, x)  *)
(* followed by stack_pop(s) returns x and restores the length and the      *)
(* elements the stack had.  Hence pushes followed by as many pops return   *)
(* the elements in reverse push order, also across a growth of the buffer. *)

C21_StackLifo ==
    (stack # NoStack) =>
        /\ stack.length <= stack.capacity
        /\ stack.length = Len(last.calls)
        /\ \A j \in 0..(stack.length - 1) :
              stack_elem(stack, j) = LittleEndian(last.calls[j + 1], stack.elem_size)
        /\ last.op = "stack_pop" => last.hash = LittleEndian(last.value, stack.elem_size)
        /\ \A x \in Elems :
              LET q == stack_pop(stack_push(stack, LittleEndian(x, stack.elem_size)))
              IN /\ q.ret = LittleEndian(x, stack.elem_size)
                 /\ q.s.length = stack.length
                 /\ q.s.length <= q.s.capacity
                 /\ \A j \in 0..(stack.length - 1) :
                       stack_elem(q.s, j) = stack_elem(stack, j)

\* more than five pushes, the buffer grown, and then as many pops
C21_Witness ==
    /\ last.op = "stack_pop"
    /\ stack.capacity = 8
    /\ stack.length = 0
    /\ last.hash = LittleEndian(last.value, stack.elem_size)

(* C30.  stack_shrink makes the buffer as small as possible: after it the  *)
(* allocated buffer holds exactly length elements and capacity equals      *)
(* length, with the elements [0, length) unchanged.                        *)

C30_StackShrink ==
    last.op = "stack_shrink" =>
        /\ stack.capacity = stack.length
        /\ DOMAIN stack.buffer = 0..(stack.length * stack.elem_size - 1)
        /\ stack.length = last.prelen
        /\ \A j \in 0..(stack.length - 1) :
              stack_elem(stack, j) = stack_elem(last.pre, j)

(* C29.  array_reserve(array, n) with n greater than the current capacity  *)
(* sets capacity to n and leaves length and the values of the elements     *)
(* [0, length) unchanged; with n <= capacity it changes nothing.           *)

C29_Reserve ==
    last.op = "array_reserve" =>
        IF last.idx > last.precap
        THEN /\ array.capacity = last.idx
             /\ array.length = last.prelen
             /\ \A j \in 0..(array.length - 1) :
                   array_elem(array, j) = array_elem(last.pre, j)
        ELSE array = last.pre

\* b occurs in a at index i: i + b.length <= a.length and
\* a.buffer[i + j] = b.buffer[j] for all j < b.length
OccursAt(a, b, i) ==
    /\ i + b.length <= a.length
    /\ \A j \in 0..(b.length - 1) : a.buffer[i + j] = b.buffer[j]

\* the indices at which b occurs in a
Occurrences(a, b) == {i \in 0..a.length : OccursAt(a, b, i)}

(* C22.  string_find(a, b) returns the smallest index i with               *)
(* i + b.length <= a.length and a.buffer[i + j] == b.buffer[j] for all     *)
(* j < b.length, and -1 when there is none; the result is determined by    *)
(* the first a.length characters of a.buffer.                              *)

C22_Find ==
    last.op = "string_find" =>
        IF Occurrences(string_a, string_b) = {}
        THEN last.ret = -1
        ELSE /\ last.ret \in Occurrences(string_a, string_b)
             /\ \A i \in Occurrences(string_a, string_b) : last.ret <= i

(* C23.  string_find_last_of(a, b) returns the largest index at which b    *)
(* occurs in a, and -1 only when b does not occur in a.                    *)

C23_FindLastOf ==
    last.op = "string_find_last_of" =>
        IF Occurrences(string_a, string_b) = {}
        THEN last.ret = -1
        ELSE /\ last.ret \in Occurrences(string_a, string_b)
             /\ \A i \in Occurrences(string_a, string_b) : last.ret >= i

(* C24, as the spec states it.  A hashmap_set that appends to a store      *)
(* whose length equals its capacity c makes the capacity c + c / 2 + 1, so *)
(* the capacities reached from 5 are 5, 8, 13, 20; an append made while    *)
(* length < capacity leaves the capacity unchanged.                        *)

C24_GrowthPlusOne ==
    /\ hashmap.capacity \in {5, 8, 13, 20}
    /\ (last.op = "set" /\ ~last.found) =>
          hashmap.capacity = IF last.prelen = last.precap
                             THEN last.precap + (last.precap \div 2) + 1
                             ELSE last.precap

(* C24, amended.  A hashmap_set that appends to a store whose length       *)
(* equals its capacity c makes the capacity c + c / 2 (integer division),  *)
(* so the capacities reached from 5 are 5, 7, 10, 15; an append made       *)
(* while length < capacity leaves the capacity unchanged.                  *)

C24_Growth ==
    /\ hashmap.capacity \in {5, 7, 10, 15}
    /\ (last.op = "set" /\ ~last.found) =>
          hashmap.capacity = IF last.prelen = last.precap
                             THEN last.precap + (last.precap \div 2)
                             ELSE last.precap

\* the third growth: the eleventh key appended to a full store of capacity 10
C24_Witness ==
    /\ last.op = "set"
    /\ ~last.found
    /\ last.prelen = 10
    /\ last.precap = 10
    /\ hashmap.capacity = 15

(* C25.  Over any sequence of operations on a store the capacity never     *)
(* decreases, and the capacity and the size of the buffer change only in a *)
(* hashmap_set that appends a record: hashmap_erase, hashmap_get,          *)
(* hashmap_exists, hashmap_iterate and a hashmap_set that updates an       *)
(* existing key leave both as they were.                                   *)

C25_CapacityMonotone ==
    [][/\ hashmap'.capacity >= hashmap.capacity
       /\ (hashmap'.capacity # hashmap.capacity
              \/ DOMAIN hashmap'.pairs # DOMAIN hashmap.pairs) =>
             (last'.op = "set" /\ ~last'.found /\ hashmap'.length = hashmap.length + 1)
       /\ (last'.op \in {"erase", "get", "exists", "iterate"}
              \/ (last'.op = "set" /\ last'.found)) =>
             /\ hashmap'.capacity = hashmap.capacity
             /\ DOMAIN hashmap'.pairs = DOMAIN hashmap.pairs]_vars

\* an erase that found its key in a store that had grown, leaving fewer
\* records than the initial capacity
C25_Witness ==
    /\ last.op = "erase"
    /\ last.found
    /\ status = "ok"
    /\ last.precap = 7
    /\ hashmap.capacity = 7
    /\ hashmap.length = 4

(* C26.  Under a fixed hash function, in every state reached from          *)
(* hashmap_init by inserting sets, updating sets and erases, every record  *)
(* at an index < length has a stored hash equal to the hash function       *)
(* applied to the record's own stored key bytes.                           *)

C26_StoredHashOfKey ==
    \A i \in 0..(hashmap.length - 1) :
        StoredHash(hashmap, i)
            = CallHashFunc(tclhashmap_hash_func, StoredKey(hashmap, i), hashmap.key_size)

\* the store m with every slot at an index >= length overwritten by a
\* record for key k: its key bytes, the value 1.0 and its hash
SlackFilled(m, k) ==
    LET hash == HashOfKey(m, k)
        rec == memcpy(memcpy(memcpy([p \in 0..(m.pair_size - 1) |-> Indet],
                                    m.key_offset, KeyBytes(m, k), m.key_size),
                             m.value_offset, ValueBytes(m, 1), m.value_size),
                      m.hash_offset, hash, SizeofSizeT)
    IN [m EXCEPT !.pairs = [p \in DOMAIN m.pairs |->
                               IF p < m.pair_size * m.length
                               THEN m.pairs[p]
                               ELSE rec[p % m.pair_size]]]

(* C27.  hashmap_get, hashmap_exists and hashmap_iterate (with a callback  *)
(* that does not write through its arguments) are read-only: they leave    *)
(* length, capacity, the layout and every byte of the records unchanged;   *)
(* and they examine only the records at indices < length: what they return *)
(* or pass to the callback is the same whatever the slots at indices       *)
(* >= length hold, and every pointer they hand out lies in a record at an  *)
(* index < length.                                                         *)

C27_ReadOnly ==
    /\ [][last'.op \in {"get", "exists", "iterate"} => hashmap' = hashmap]_vars
    /\ [](/\ \A k \in 1..(MixMaxKey + 1) :
               LET kb == KeyBytes(hashmap, k)
                   f == tclhashmap_hash_func
               IN /\ tclhashmap_get(SlackFilled(hashmap, k), f, kb)
                        = tclhashmap_get(hashmap, f, kb)
                  /\ tclhashmap_exists(SlackFilled(hashmap, k), f, kb)
                        = tclhashmap_exists(hashmap, f, kb)
                  /\ tclhashmap_iterate(SlackFilled(hashmap, k)) = tclhashmap_iterate(hashmap)
          /\ (last.op = "get" /\ last.ret # NULL) =>
                last.ret + hashmap.value_size <= hashmap.pair_size * hashmap.length
          /\ last.op = "iterate" =>
                \A n \in 1..Len(last.calls) :
                    /\ last.calls[n].key + hashmap.key_size
                          <= hashmap.pair_size * hashmap.length
                    /\ last.calls[n].value + hashmap.value_size
                          <= hashmap.pair_size * hashmap.length)

\* a lookup that missed in a store that has grown, was shortened by an
\* erase and still holds records: the scan stopped at length, before the
\* slots that are allocated and not in use
C27_Witness ==
    /\ last.op \in {"get", "exists"}
    /\ ~last.found
    /\ hashmap.capacity = 7
    /\ hashmap.length >= 1
    /\ hashmap.length < 5

\* the pointer hashmap_get returns for the record at index i
ValuePointer(m, i) == TCLHASHMAP_GET_VALUE(m, TCLHASHMAP_GET_PAIR(m, i))

(* C28.  A value pointer returned by hashmap_get(m, k) designates the      *)
(* value slot of k's record, and keeps designating it across any later     *)
(* hashmap_get, hashmap_exists, hashmap_iterate, any hashmap_set that      *)
(* updates an existing key and any appending hashmap_set made while        *)
(* length < capacity: such a step does not reallocate the buffer and       *)
(* leaves every record at its index with its key.  Only an appending set   *)
(* made at length = capacity, or a hashmap_erase, can end that.            *)

C28_PointerStable ==
    /\ [][(\/ last'.op \in {"get", "exists", "iterate"}
           \/ (last'.op = "set" /\ (last'.found \/ last'.prelen < last'.precap))) =>
             /\ DOMAIN hashmap'.pairs = DOMAIN hashmap.pairs
             /\ hashmap'.capacity = hashmap.capacity
             /\ \A i \in 0..(hashmap.length - 1) :
                   /\ i < hashmap'.length
                   /\ ValuePointer(hashmap', i) = ValuePointer(hashmap, i)
                   /\ StoredKey(hashmap', i) = StoredKey(hashmap, i)]_vars
    /\ []((last.op = "get" /\ last.ret # NULL) =>
             \E i \in 0..(hashmap.length - 1) :
                 /\ last.ret = ValuePointer(hashmap, i)
                 /\ StoredKey(hashmap, i) = KeyBytes(hashmap, last.key))

\* key 1 was set again (an update) in a store that holds other records and
\* has grown: the pointers to all of them are still good
C28_Witness ==
    /\ last.op = "set"
    /\ last.found
    /\ last.key = 1
    /\ hashmap.capacity = 7
    /\ hashmap.length >= 2
    /\ tclhashmap_get(hashmap, tclhashmap_hash_func, KeyBytes(hashmap, 2)) # NULL

(* C31.  In every state reached through string_new, string_new_from_cstr,  *)
(* string_duplicate, string_append, string_append_char and string_erase,   *)
(* the allocated size of the string's buffer is at least length bytes, and *)
(* every byte these operations wrote fell inside the allocation.           *)

C31_StringAlloc ==
    /\ StringAlloc(string_a) >= string_a.length
    /\ last.moved = 0
    /\ status # "crashed"

(* C32.  bitset_and, bitset_or and bitset_xor applied to bitsets a and b   *)
(* of possibly different num_bits read and write only byte indices below   *)
(* num_uint8 of a, read only byte indices below num_uint8 of b, and set     *)
(* each byte of a within the common range to the bytewise and, or, xor of  *)
(* the two operands.                                                       *)

C32_BitsetOps ==
    last.op \in {"and", "or", "xor"} =>
        /\ status = "ok"
        /\ last.moved = 0
        /\ last.calls = 0
        /\ \A i \in 0..(TCL_MAX(bitset_a.num_uint8, bitset_b.num_uint8) - 1) :
              (i < bitset_a.num_uint8 /\ i < bitset_b.num_uint8) =>
                  bitset_a.bits[i] = BitOp(last.op, last.pre.bits[i], bitset_b.bits[i], 8)

====
